---- MODULE Spec2Model ----
(***************************************************************************)
(* A model of the JSON archives of ser20 (include/ser20/archives/          *)
(* simdjson.hpp): the write-side archive JSONOutputArchive, which turns a  *)
(* sequence of startNode / finishNode / setNextName / makeArray /          *)
(* saveValue calls into calls of a streaming JSON writer, and the          *)
(* read-side archive JSONInputArchive, which walks a parsed document with  *)
(* a stack of per-level iterators.                                         *)
(*                                                                         *)
(* Strings are sequences of one-character strings, so that formatting and  *)
(* parsing are computed and not assumed. A C string pointer is a sequence  *)
(* of length at most one: <<>> is nullptr and <<s>> points to s.           *)
(* Integers of up to 64 bits are kept as a sign and a magnitude of four    *)
(* 16-bit limbs (least significant first), so that the 32- and 64-bit      *)
(* boundary values are represented exactly.                                *)
(***************************************************************************)
EXTENDS Integers, Sequences, FiniteSets, TLC

VARIABLES
  oar,    \* the JSONOutputArchive object
  olife,  \* "live" | "destroyed"
  iar,    \* the JSONInputArchive object
  ilife,  \* "none" (not constructed) | "live" | "failed" (given up after a throw)
  op,     \* the last call made on either archive
  calls,  \* the write-side calls made so far, in order (SpecR: the last call)
  rpos,   \* read-back: the calls of `calls` replayed (SpecR: the calls made)
  err,    \* the exception the last read-side call threw, or "none"
  ret     \* what the last read-side call returned through its out-parameter

vars == <<oar, olife, iar, ilife, op, calls, rpos, err, ret>>

(***************************************************************************)
(* Bounds of the model.                                                    *)
(***************************************************************************)
MaxCalls == 5     \* write-side calls before destruction
MaxDepth == 3     \* depth of the write-side node stack
MaxReads == 6     \* read-side calls on a document of the bounded family
MaxBytes == 3     \* bytes of a buffer given to saveBinaryValue

(***************************************************************************)
(* Characters and decimal digits.                                          *)
(***************************************************************************)
Digits == <<"0", "1", "2", "3", "4", "5", "6", "7", "8", "9">>

DigitChar(d) == Digits[d + 1]

IsDigit(c) == \E i \in 1..10 : Digits[i] = c

CharDigit(c) == CHOOSE d \in 0..9 : Digits[d + 1] = c

Top(s) == s[Len(s)]

Pop(s) == SubSeq(s, 1, Len(s) - 1)

SetTop(s, x) == [s EXCEPT ![Len(s)] = x]

RECURSIVE NatToChars(_)
\* std::to_string of an unsigned counter
NatToChars(n) ==
  IF n < 10 THEN <<DigitChar(n)>>
  ELSE NatToChars(n \div 10) \o <<DigitChar(n % 10)>>

(***************************************************************************)
(* Integers of up to 64 bits: [neg, mag], mag four limbs base 2^16.        *)
(***************************************************************************)
LimbBase == 2^16

LimbMax == LimbBase - 1

HalfLimb == 2^15

MagZero == <<0, 0, 0, 0>>

Z(neg, l0, l1, l2, l3) == [neg |-> neg, mag |-> <<l0, l1, l2, l3>>]

\* mag < other, both four limbs
MagLess(a, b) ==
  \E i \in 1..4 : a[i] < b[i] /\ \A j \in (i + 1)..4 : a[j] = b[j]

MagLeq(a, b) == a = b \/ MagLess(a, b)

Mag2_31 == <<0, HalfLimb, 0, 0>>
Mag2_32m1 == <<LimbMax, LimbMax, 0, 0>>
Mag2_63 == <<0, 0, 0, HalfLimb>>
Mag2_64m1 == <<LimbMax, LimbMax, LimbMax, LimbMax>>

\* the ranges of the four integer types of the writer and of the document
InInt32(z) == IF z.neg THEN MagLeq(z.mag, Mag2_31) ELSE MagLess(z.mag, Mag2_31)
InUint32(z) == ~z.neg /\ MagLeq(z.mag, Mag2_32m1)
InInt64(z) == IF z.neg THEN MagLeq(z.mag, Mag2_63) ELSE MagLess(z.mag, Mag2_63)
InUint64(z) == ~z.neg

\* Decimal conversion works on groups of four digits, so that a 64-bit
\* magnitude takes five steps.
Chunk == 10^4

\* quotient and remainder of a magnitude by Chunk, most significant limb first
DivModChunk(m) ==
  LET r4 == m[4] % Chunk
      c3 == r4 * LimbBase + m[3]
      r3 == c3 % Chunk
      c2 == r3 * LimbBase + m[2]
      r2 == c2 % Chunk
      c1 == r2 * LimbBase + m[1]
  IN [q |-> <<c1 \div Chunk, c2 \div Chunk, c3 \div Chunk, m[4] \div Chunk>>,
      r |-> c1 % Chunk]

\* the four decimal digits of n < Chunk, leading zeros kept
FourDigits(n) ==
  <<DigitChar(n \div 1000), DigitChar((n \div 100) % 10),
    DigitChar((n \div 10) % 10), DigitChar(n % 10)>>

RECURSIVE MagToChars(_)
\* the decimal digits of a magnitude, no leading zero
MagToChars(m) ==
  LET d == DivModChunk(m)
  IN IF d.q = MagZero THEN NatToChars(d.r)
     ELSE MagToChars(d.q) \o FourDigits(d.r)

\* m * 10^k + d for k <= 4 and d < 10^k, with the carry out of the fourth
\* limb (an overflow of 64 bits)
MulAdd(m, k, d) ==
  LET p1 == m[1] * (10^k) + d
      p2 == m[2] * (10^k) + p1 \div LimbBase
      p3 == m[3] * (10^k) + p2 \div LimbBase
      p4 == m[4] * (10^k) + p3 \div LimbBase
  IN [m |-> <<p1 % LimbBase, p2 % LimbBase, p3 % LimbBase, p4 % LimbBase>>,
      over |-> p4 \div LimbBase > 0]

\* the number up to four decimal digits denote
SmallNat(cs) ==
  LET n == Len(cs)
      d(i) == IF i > n THEN 0 ELSE CharDigit(cs[n + 1 - i])
  IN d(1) + 10 * d(2) + 100 * d(3) + 1000 * d(4)

RECURSIVE CharsToMag(_)
\* the magnitude a sequence of decimal digits denotes, and whether it
\* exceeds 64 bits
CharsToMag(cs) ==
  IF Len(cs) <= 4 THEN [m |-> <<SmallNat(cs), 0, 0, 0>>, over |-> FALSE]
  ELSE LET h == CharsToMag(SubSeq(cs, 1, Len(cs) - 4))
           s == MulAdd(h.m, 4, SmallNat(SubSeq(cs, Len(cs) - 3, Len(cs))))
       IN [m |-> s.m, over |-> h.over \/ s.over]

\* two's complement negation of the low 32 bits (two limbs)
Neg32(lo) ==
  <<(LimbBase - lo[1]) % LimbBase,
    (LimbMax - lo[2] + (IF lo[1] = 0 THEN 1 ELSE 0)) % LimbBase>>

\* the low 32 bits of the two's complement pattern of z
Low32(z) ==
  LET lo == <<z.mag[1], z.mag[2]>>
  IN IF z.neg THEN Neg32(lo) ELSE lo

\* static_cast<std::int32_t>(z): the low 32 bits read as a signed integer
CastInt32(z) ==
  LET lo == Low32(z)
  IN IF lo[2] >= HalfLimb
     THEN LET n == Neg32(lo) IN [neg |-> TRUE, mag |-> <<n[1], n[2], 0, 0>>]
     ELSE [neg |-> FALSE, mag |-> <<lo[1], lo[2], 0, 0>>]

\* static_cast<std::uint32_t>(z): the low 32 bits read as an unsigned integer
CastUint32(z) ==
  LET lo == Low32(z) IN [neg |-> FALSE, mag |-> <<lo[1], lo[2], 0, 0>>]

(***************************************************************************)
(* Floating-point values: [neg, num, exp] is num / 2^exp, with num odd or  *)
(* exp = 0. The model covers the values whose decimal expansion is short   *)
(* enough to be printed exactly in fixed notation.                         *)
(***************************************************************************)
F(neg, num, exp) == [neg |-> neg, num |-> num, exp |-> exp]

RECURSIVE FNormal(_)
FNormal(f) ==
  IF f.num = 0 THEN F(FALSE, 0, 0)
  ELSE IF f.exp > 0 /\ f.num % 2 = 0 THEN FNormal(F(f.neg, f.num \div 2, f.exp - 1))
  ELSE f

RECURSIVE FracChars(_, _)
\* the decimal digits of r / 2^exp, 0 <= r < 2^exp
FracChars(r, exp) ==
  IF r = 0 THEN <<>>
  ELSE <<DigitChar((r * 10) \div (2^exp))>> \o FracChars((r * 10) % (2^exp), exp)

\* fixed notation, no trailing zeros, no decimal point for a whole number:
\* operator<< of a stream in its default float format
FixedChars(f) ==
  LET whole == NatToChars(f.num \div (2^f.exp))
      frac == FracChars(f.num % (2^f.exp), f.exp)
  IN (IF f.neg THEN <<"-">> ELSE <<>>) \o whole
       \o (IF frac = <<>> THEN <<>> ELSE <<".">> \o frac)

HasPoint(cs) == \E i \in 1..Len(cs) : cs[i] = "."

RECURSIVE CharsToNat(_)
CharsToNat(cs) ==
  IF cs = <<>> THEN 0 ELSE CharsToNat(Pop(cs)) * 10 + CharDigit(Top(cs))

\* the characters of cs that are digits, in order
DigitsOf(cs) == SelectSeq(cs, IsDigit)

\* the number of digits after the decimal point
FracLen(cs) ==
  IF HasPoint(cs)
  THEN Len(cs) - (CHOOSE i \in 1..Len(cs) : cs[i] = ".")
  ELSE 0

\* a decimal text read as a floating-point value (std::stold, and the
\* parser's double): the value N / 10^n, as a dyadic when it is one
CharsToF(cs) ==
  LET neg == cs # <<>> /\ cs[1] = "-"
      N == CharsToNat(DigitsOf(cs))
      n == FracLen(cs)
  IN IF N % (5^n) = 0
     THEN FNormal(F(neg /\ N # 0, N \div (5^n), n))
     ELSE F(neg, N, 0 - n)   \* not a dyadic: the nearest value, kept apart

(***************************************************************************)
(* The streaming writer (rapidjson PrettyWriter) and the document parser   *)
(* (simdjson dom) are used through their interfaces. itsWriter is the      *)
(* sequence of primitive calls the archive made; WriterText is the token   *)
(* stream those calls put on the output; Parse is the document the parser  *)
(* builds from a token stream.                                             *)
(***************************************************************************)
IntToChars(z) == (IF z.neg THEN <<"-">> ELSE <<>>) \o MagToChars(z.mag)

\* Writer::Double prints the shortest text that reads back as the same
\* double, and always marks it as a real number
DoubleToChars(f) ==
  LET cs == FixedChars(f) IN IF HasPoint(cs) THEN cs ELSE cs \o <<".", "0">>

WriterToken(ev) ==
  CASE ev.op = "StartObject" -> [k |-> "{"]
    [] ev.op = "EndObject" -> [k |-> "}"]
    [] ev.op = "StartArray" -> [k |-> "["]
    [] ev.op = "EndArray" -> [k |-> "]"]
    [] ev.op = "Null" -> [k |-> "null"]
    [] ev.op = "Bool" -> [k |-> IF ev.v THEN "true" ELSE "false"]
    [] ev.op \in {"Int", "Uint", "Int64", "Uint64"} ->
         [k |-> "num", v |-> IntToChars(ev.v)]
    [] ev.op = "Double" -> [k |-> "num", v |-> DoubleToChars(ev.v)]
    [] ev.op = "String" -> [k |-> "str", v |-> ev.v]

WriterText(evs) == [i \in 1..Len(evs) |-> WriterToken(evs[i])]

\* the element a scalar token denotes (the parser's number classification:
\* a real number if it has a fraction, else a signed 64-bit integer if it
\* fits, else an unsigned one)
ScalarElement(tok) ==
  CASE tok.k = "null" -> [k |-> "null"]
    [] tok.k = "true" -> [k |-> "bool", v |-> TRUE]
    [] tok.k = "false" -> [k |-> "bool", v |-> FALSE]
    [] tok.k = "str" -> [k |-> "string", v |-> tok.v]
    [] tok.k = "num" ->
         IF HasPoint(tok.v) THEN [k |-> "double", v |-> CharsToF(tok.v)]
         ELSE LET neg == tok.v[1] = "-"
                  r == CharsToMag(DigitsOf(tok.v))
                  z == [neg |-> neg /\ r.m # MagZero, mag |-> r.m]
              IN IF ~r.over /\ InInt64(z) THEN [k |-> "int64", v |-> z]
                 ELSE IF ~r.over /\ InUint64(z) THEN [k |-> "uint64", v |-> z]
                 ELSE [k |-> "error"]

\* A compound under construction: its kind, its children so far and, in an
\* object, the key that waits for its value.
Frame(kind) == [k |-> kind, m |-> <<>>, key |-> <<>>]

\* the parser state after value e is complete
AddValue(st, e) ==
  IF st.bad THEN st
  ELSE IF st.stack = <<>>
  THEN IF st.root = <<>> THEN [st EXCEPT !.root = <<e>>]
       ELSE [st EXCEPT !.bad = TRUE]
  ELSE LET f == Top(st.stack)
       IN IF f.k = "array"
          THEN [st EXCEPT !.stack = SetTop(@, [f EXCEPT !.m = Append(@, e)])]
          ELSE IF f.key = <<>> THEN [st EXCEPT !.bad = TRUE]
          ELSE [st EXCEPT !.stack =
                  SetTop(@, [f EXCEPT !.m = Append(@, [key |-> f.key[1], val |-> e]),
                                      !.key = <<>>])]

ParseStep(st, tok) ==
  IF st.bad \/ (st.stack = <<>> /\ st.root # <<>>) THEN [st EXCEPT !.bad = TRUE]
  ELSE IF tok.k = "{" THEN [st EXCEPT !.stack = Append(@, Frame("object"))]
  ELSE IF tok.k = "[" THEN [st EXCEPT !.stack = Append(@, Frame("array"))]
  ELSE IF tok.k \in {"}", "]"}
  THEN IF st.stack = <<>> THEN [st EXCEPT !.bad = TRUE]
       ELSE LET f == Top(st.stack)
            IN IF f.k # (IF tok.k = "}" THEN "object" ELSE "array") \/ f.key # <<>>
               THEN [st EXCEPT !.bad = TRUE]
               ELSE AddValue([st EXCEPT !.stack = Pop(@)], [k |-> f.k, m |-> f.m])
  ELSE IF st.stack # <<>> /\ Top(st.stack).k = "object" /\ Top(st.stack).key = <<>>
  THEN IF tok.k = "str"
       THEN [st EXCEPT !.stack = SetTop(@, [Top(@) EXCEPT !.key = <<tok.v>>])]
       ELSE [st EXCEPT !.bad = TRUE]
  ELSE LET e == ScalarElement(tok)
       IN IF e.k = "error" THEN [st EXCEPT !.bad = TRUE] ELSE AddValue(st, e)

RECURSIVE ParseFrom(_, _, _)
ParseFrom(st, toks, i) ==
  IF i > Len(toks) THEN st ELSE ParseFrom(ParseStep(st, toks[i]), toks, i + 1)

\* <<root>> when the tokens are exactly one complete JSON value, else <<>>
\* (the parser reports an error)
Parse(toks) ==
  LET st == ParseFrom([stack |-> <<>>, root |-> <<>>, bad |-> FALSE], toks, 1)
  IN IF st.bad \/ st.stack # <<>> THEN <<>> ELSE st.root

(***************************************************************************)
(* The byte-to-text codec (base64.hpp), used through its interface.        *)
(***************************************************************************)
Base64Chars ==
  <<"A", "B", "C", "D", "E", "F", "G", "H", "I", "J", "K", "L", "M", "N", "O", "P",
    "Q", "R", "S", "T", "U", "V", "W", "X", "Y", "Z", "a", "b", "c", "d", "e", "f",
    "g", "h", "i", "j", "k", "l", "m", "n", "o", "p", "q", "r", "s", "t", "u", "v",
    "w", "x", "y", "z", "0", "1", "2", "3", "4", "5", "6", "7", "8", "9", "+", "/">>

B64(i) == Base64Chars[i + 1]

RECURSIVE Base64Encode(_)
Base64Encode(bs) ==
  IF bs = <<>> THEN <<>>
  ELSE IF Len(bs) = 1
  THEN <<B64(bs[1] \div 4), B64((bs[1] % 4) * 16), "=", "=">>
  ELSE IF Len(bs) = 2
  THEN <<B64(bs[1] \div 4), B64((bs[1] % 4) * 16 + bs[2] \div 16),
         B64((bs[2] % 16) * 4), "=">>
  ELSE <<B64(bs[1] \div 4), B64((bs[1] % 4) * 16 + bs[2] \div 16),
         B64((bs[2] % 16) * 4 + bs[3] \div 64), B64(bs[3] % 64)>>
         \o Base64Encode(SubSeq(bs, 4, Len(bs)))

IsBase64(c) == \E i \in 1..64 : Base64Chars[i] = c

B64Index(c) == (CHOOSE i \in 1..64 : Base64Chars[i] = c) - 1

RECURSIVE Base64Prefix(_, _)
\* the number of leading characters of cs, from position i on, that are
\* characters of the alphabet: decoding stops at '=' and at any other
\* character
Base64Prefix(cs, i) ==
  IF i > Len(cs) \/ ~IsBase64(cs[i]) THEN i - 1 ELSE Base64Prefix(cs, i + 1)

\* the three bytes four 6-bit values denote
Base64Triple(q) ==
  <<q[1] * 4 + q[2] \div 16, (q[2] % 16) * 16 + q[3] \div 4, (q[3] % 4) * 64 + q[4]>>

RECURSIVE Base64DecodeFrom(_, _, _)
\* the bytes of the characters i .. n of cs: three for every four
\* characters, and one less than their number for the last one to three
Base64DecodeFrom(cs, i, n) ==
  IF i > n THEN <<>>
  ELSE IF n - i >= 3
  THEN Base64Triple([j \in 1..4 |-> B64Index(cs[i + j - 1])])
         \o Base64DecodeFrom(cs, i + 4, n)
  ELSE SubSeq(Base64Triple([j \in 1..4 |->
                              IF i + j - 1 <= n THEN B64Index(cs[i + j - 1]) ELSE 0]),
              1, n - i)

Base64Decode(cs) == Base64DecodeFrom(cs, 1, Base64Prefix(cs, 1))

(***************************************************************************)
(* JSONOutputArchive.                                                      *)
(*                                                                         *)
(* A value handed to saveValue is [t, v]: t the C++ type that selects the  *)
(* overload, v the value.                                                  *)
(***************************************************************************)
\* JSONOutputArchive::JSONOutputArchive
Out_Construct ==
  [itsNextName |-> <<>>,
   itsNameCounter |-> <<0>>,
   itsNodeStack |-> <<"StartObject">>,
   itsWriter |-> <<>>]

\* one call of a primitive of itsWriter
Emit(a, ev) == [a EXCEPT !.itsWriter = Append(@, ev)]

\* saveValue that writes a long double with the writer's Double
saveValue_WideAsDouble(a, x) ==
  IF x.t = "long double" THEN Emit(a, [op |-> "Double", v |-> x.v])
  ELSE IF x.t = "string" THEN Emit(a, [op |-> "String", v |-> x.v])
  ELSE IF x.t = "nullptr_t" THEN Emit(a, [op |-> "Null"])
  ELSE Emit(a, [op |-> CASE x.t = "bool" -> "Bool"
                         [] x.t = "int" -> "Int"
                         [] x.t = "unsigned" -> "Uint"
                         [] x.t = "int64_t" -> "Int64"
                         [] x.t = "uint64_t" -> "Uint64"
                         [] x.t = "double" -> "Double",
                v |-> x.v])

\* JSONOutputArchive::saveValue, the overload the type of x selects
saveValue(a, x) ==
  CASE x.t = "bool" -> Emit(a, [op |-> "Bool", v |-> x.v])
    [] x.t = "int" -> Emit(a, [op |-> "Int", v |-> x.v])
    [] x.t = "unsigned" -> Emit(a, [op |-> "Uint", v |-> x.v])
    [] x.t = "int64_t" -> Emit(a, [op |-> "Int64", v |-> x.v])
    [] x.t = "uint64_t" -> Emit(a, [op |-> "Uint64", v |-> x.v])
    [] x.t = "double" -> Emit(a, [op |-> "Double", v |-> x.v])
    [] x.t = "string" -> Emit(a, [op |-> "String", v |-> x.v])
    [] x.t = "nullptr_t" -> Emit(a, [op |-> "Null"])
    [] x.t = "long double" -> Emit(a, [op |-> "String", v |-> FixedChars(x.v)])

\* saveLong that casts every long to 32 bits
saveLong_Always32(a, l, size, signed) ==
  IF signed THEN saveValue(a, [t |-> "int", v |-> CastInt32(l)])
  ELSE saveValue(a, [t |-> "unsigned", v |-> CastUint32(l)])

\* JSONOutputArchive::saveLong for a long (signed) or unsigned long of size
\* bytes: the overload with sizeof(T) == sizeof(std::int32_t) casts to the
\* 32-bit type, the other to the 64-bit type, which a long of 8 bytes fits
saveLong(a, l, size, signed) ==
  IF size = 4
  THEN IF signed THEN saveValue(a, [t |-> "int", v |-> CastInt32(l)])
       ELSE saveValue(a, [t |-> "unsigned", v |-> CastUint32(l)])
  ELSE IF signed THEN saveValue(a, [t |-> "int64_t", v |-> l])
       ELSE saveValue(a, [t |-> "uint64_t", v |-> l])

\* the counter incremented before it is used
ValueName_PreIncrement(n) == <<"v", "a", "l", "u", "e">> \o NatToChars(n + 1)

\* "value" + std::to_string(counter)
ValueName(n) == <<"v", "a", "l", "u", "e">> \o NatToChars(n)

\* writeName that starts the compound and leaves the level in its Start state
writeName_NoTransition(a) ==
  LET top == Top(a.itsNodeStack)
      a1 == IF top = "StartArray" THEN Emit(a, [op |-> "StartArray"])
            ELSE IF top = "StartObject" THEN Emit(a, [op |-> "StartObject"])
            ELSE a
  IN IF top \in {"StartArray", "InArray"} THEN a1
     ELSE IF a1.itsNextName = <<>>
     THEN saveValue([a1 EXCEPT !.itsNameCounter = SetTop(@, Top(@) + 1)],
                    [t |-> "string", v |-> ValueName(Top(a1.itsNameCounter))])
     ELSE saveValue([a1 EXCEPT !.itsNextName = <<>>],
                    [t |-> "string", v |-> a1.itsNextName[1]])

\* writeName without the return for arrays: a key is written at every level
writeName_NoArrayReturn(a) ==
  LET top == Top(a.itsNodeStack)
      a1 == IF top = "StartArray"
            THEN [Emit(a, [op |-> "StartArray"])
                    EXCEPT !.itsNodeStack = SetTop(@, "InArray")]
            ELSE IF top = "StartObject"
            THEN Emit([a EXCEPT !.itsNodeStack = SetTop(@, "InObject")],
                      [op |-> "StartObject"])
            ELSE a
  IN IF a1.itsNextName = <<>>
     THEN saveValue([a1 EXCEPT !.itsNameCounter = SetTop(@, Top(@) + 1)],
                    [t |-> "string", v |-> ValueName(Top(a1.itsNameCounter))])
     ELSE saveValue([a1 EXCEPT !.itsNextName = <<>>],
                    [t |-> "string", v |-> a1.itsNextName[1]])

\* JSONOutputArchive::writeName. nodeType is a reference to the top of the
\* node stack, so the test for InArray reads the state just assigned.
writeName(a) ==
  LET top == Top(a.itsNodeStack)
      a1 == IF top = "StartArray"
            THEN [Emit(a, [op |-> "StartArray"])
                    EXCEPT !.itsNodeStack = SetTop(@, "InArray")]
            ELSE IF top = "StartObject"
            THEN Emit([a EXCEPT !.itsNodeStack = SetTop(@, "InObject")],
                      [op |-> "StartObject"])
            ELSE a
      nodeType == Top(a1.itsNodeStack)
  IN IF nodeType = "InArray" THEN a1
     ELSE IF a1.itsNextName = <<>>
     THEN saveValue([a1 EXCEPT !.itsNameCounter = SetTop(@, Top(@) + 1)],
                    [t |-> "string", v |-> ValueName(Top(a1.itsNameCounter))])
     ELSE [saveValue(a1, [t |-> "string", v |-> a1.itsNextName[1]])
             EXCEPT !.itsNextName = <<>>]

\* startNode that pushes the new level before it writes the name
Out_startNode_PushFirst(a) ==
  writeName([a EXCEPT !.itsNodeStack = Append(@, "StartObject"),
                      !.itsNameCounter = Append(@, 0)])

\* startNode that pushes a name counter and no node state
Out_startNode_NoPush(a) ==
  [writeName(a) EXCEPT !.itsNameCounter = Append(@, 0)]

\* JSONOutputArchive::startNode
Out_startNode(a) ==
  LET a1 == writeName(a)
  IN [a1 EXCEPT !.itsNodeStack = Append(@, "StartObject"),
                !.itsNameCounter = Append(@, 0)]

\* finishNode's switch with a break after each Start call
CloseEvents_NoFallThrough(nodeType) ==
  CASE nodeType = "StartArray" -> <<[op |-> "StartArray"]>>
    [] nodeType = "InArray" -> <<[op |-> "EndArray"]>>
    [] nodeType = "StartObject" -> <<[op |-> "StartObject"]>>
    [] nodeType = "InObject" -> <<[op |-> "EndObject"]>>

\* the writer calls of finishNode's switch, with its fall-throughs
CloseEvents(nodeType) ==
  CASE nodeType = "StartArray" -> <<[op |-> "StartArray"], [op |-> "EndArray"]>>
    [] nodeType = "InArray" -> <<[op |-> "EndArray"]>>
    [] nodeType = "StartObject" -> <<[op |-> "StartObject"], [op |-> "EndObject"]>>
    [] nodeType = "InObject" -> <<[op |-> "EndObject"]>>

\* JSONOutputArchive::finishNode
Out_finishNode(a) ==
  [a EXCEPT !.itsWriter = @ \o CloseEvents(Top(a.itsNodeStack)),
            !.itsNodeStack = Pop(@),
            !.itsNameCounter = Pop(@)]

\* JSONOutputArchive::setNextName
Out_setNextName(a, name) == [a EXCEPT !.itsNextName = name]

\* JSONOutputArchive::makeArray
makeArray(a) == [a EXCEPT !.itsNodeStack = SetTop(@, "StartArray")]

\* prologue and save of a scalar: writeName, then saveValue
Out_save(a, x) == saveValue(writeName(a), x)

\* saveBinaryValue that writes the key before it sets the name
saveBinaryValue_NameAfter(a, data, name) ==
  saveValue(Out_setNextName(writeName(a), name),
            [t |-> "string", v |-> Base64Encode(data)])

\* JSONOutputArchive::saveBinaryValue
saveBinaryValue(a, data, name) ==
  LET a1 == writeName(Out_setNextName(a, name))
  IN saveValue(a1, [t |-> "string", v |-> Base64Encode(data)])

\* a destructor that closes nothing
Out_Destroy_NoClose(a) == a

\* JSONOutputArchive::~JSONOutputArchive
Out_Destroy(a) ==
  IF Top(a.itsNodeStack) = "InObject" THEN Emit(a, [op |-> "EndObject"])
  ELSE IF Top(a.itsNodeStack) = "InArray" THEN Emit(a, [op |-> "EndArray"])
  ELSE a

(***************************************************************************)
(* The document (simdjson dom::element): [k |-> "object", m |-> members],  *)
(* a member being [key, val]; [k |-> "array", m |-> elements]; or a scalar *)
(* [k |-> "int64" | "uint64" | "double" | "string" | "bool", v |-> value]  *)
(* or [k |-> "null"]. The typed getters fail on a value of another type.   *)
(***************************************************************************)
IsCompound(e) == e.k \in {"object", "array"}

\* an integer as a double, for the integers the model's doubles cover
ZToF(z) ==
  IF z.mag[3] = 0 /\ z.mag[4] = 0 /\ z.mag[2] < HalfLimb
  THEN F(z.neg, z.mag[1] + z.mag[2] * LimbBase, 0)
  ELSE F(z.neg, 0 - 1, 0)   \* beyond the model's doubles, kept apart

get_int64(e) ==
  IF e.k = "int64" THEN [err |-> "none", v |-> e.v]
  ELSE IF e.k = "uint64"
  THEN IF InInt64(e.v) THEN [err |-> "none", v |-> e.v]
       ELSE [err |-> "NumberOutOfRange"]
  ELSE [err |-> "IncorrectType"]

get_uint64(e) ==
  IF e.k = "uint64" THEN [err |-> "none", v |-> e.v]
  ELSE IF e.k = "int64"
  THEN IF ~e.v.neg THEN [err |-> "none", v |-> e.v]
       ELSE [err |-> "NumberOutOfRange"]
  ELSE [err |-> "IncorrectType"]

get_double(e) ==
  IF e.k = "double" THEN [err |-> "none", v |-> e.v]
  ELSE IF e.k \in {"int64", "uint64"} THEN [err |-> "none", v |-> ZToF(e.v)]
  ELSE [err |-> "IncorrectType"]

get_bool(e) ==
  IF e.k = "bool" THEN [err |-> "none", v |-> e.v] ELSE [err |-> "IncorrectType"]

get_string(e) ==
  IF e.k = "string" THEN [err |-> "none", v |-> e.v] ELSE [err |-> "IncorrectType"]

(***************************************************************************)
(* JSONInputArchive::Iterator: a begin/end range of members or elements    *)
(* (range), the current position in it (itsCurrent, Len(range) + 1 being   *)
(* the end) and itsType.                                                   *)
(***************************************************************************)
\* Iterator(ObjectIterator begin, ObjectIterator end)
Iterator_Object(members) ==
  [itsType |-> IF members = <<>> THEN "Null_" ELSE "Object",
   range |-> members, itsCurrent |-> 1]

\* Iterator(ArrayIterator begin, ArrayIterator end)
Iterator_Array(elements) ==
  [itsType |-> IF elements = <<>> THEN "Null_" ELSE "Array",
   range |-> elements, itsCurrent |-> 1]

AtEnd(it) == it.itsCurrent = Len(it.range) + 1

\* Iterator::operator++
Iterator_inc(it) ==
  IF it.itsType \in {"Array", "Object"} /\ ~AtEnd(it)
  THEN [it EXCEPT !.itsCurrent = @ + 1]
  ELSE it

\* Iterator::value
Iterator_value(it) ==
  IF it.itsType \in {"Array", "Object"} /\ AtEnd(it)
  THEN [err |-> "NoMoreObjects"]
  ELSE IF it.itsType = "Array" THEN [err |-> "none", v |-> it.range[it.itsCurrent]]
  ELSE IF it.itsType = "Object"
  THEN [err |-> "none", v |-> it.range[it.itsCurrent].val]
  ELSE [err |-> "NullIterator"]

\* Iterator::name: <<>> is nullptr
Iterator_name(it) ==
  IF it.itsType = "Object" /\ ~AtEnd(it) THEN <<it.range[it.itsCurrent].key>>
  ELSE <<>>

\* the scan keeps the last member whose key is searchName
ScanFrom_LastMatch(range, i, searchName) ==
  LET S == {j \in i..Len(range) : range[j].key = searchName}
  IN IF S = {} THEN Len(range) + 1 ELSE CHOOSE j \in S : \A k \in S : k <= j

RECURSIVE ScanFrom(_, _, _)
\* the loop of Iterator::search: the first position from i on whose key is
\* searchName, or the end
ScanFrom(range, i, searchName) ==
  IF i > Len(range) THEN i
  ELSE IF range[i].key = searchName THEN i
  ELSE ScanFrom(range, i + 1, searchName)

\* the scan started at the current position, not at the beginning
Iterator_search_FromCurrent(it, searchName) ==
  IF it.itsType # "Object" THEN [it |-> it, err |-> "SearchNonObject"]
  ELSE LET at == ScanFrom(it.range, it.itsCurrent, searchName)
       IN [it |-> [it EXCEPT !.itsCurrent = at],
           err |-> IF at > Len(it.range) THEN "NameNotFound" ELSE "none"]

\* Iterator::search
Iterator_search(it, searchName) ==
  IF it.itsType # "Object" THEN [it |-> it, err |-> "SearchNonObject"]
  ELSE LET at == ScanFrom(it.range, 1, searchName)
       IN [it |-> [it EXCEPT !.itsCurrent = at],
           err |-> IF at > Len(it.range) THEN "NameNotFound" ELSE "none"]

(***************************************************************************)
(* JSONInputArchive. Every operation yields [a, err, ret]: the archive     *)
(* after the call (with what the call changed before it threw), the        *)
(* exception thrown or "none", and the value handed back, <<>> if none.    *)
(***************************************************************************)
Threw(a, e) == [a |-> a, err |-> e, ret |-> <<>>]

Done(a, r) == [a |-> a, err |-> "none", ret |-> r]

\* the iterator over the children of a compound
ChildIterator(e) ==
  IF e.k = "array" THEN Iterator_Array(e.m) ELSE Iterator_Object(e.m)

\* Init without the branch for an array root
In_Construct_ObjectOnly(doc) ==
  LET a == [itsNextName |-> <<>>, itsDocument |-> doc, itsIteratorStack |-> <<>>]
  IN IF doc = <<>> THEN Threw(a, "ParseError")
     ELSE IF doc[1].k = "object"
     THEN Done([a EXCEPT !.itsIteratorStack = <<ChildIterator(doc[1])>>], <<>>)
     ELSE Threw(a, "RootNotCompound")

\* the constructor: ParseDocument, then Init. doc is <<>> when the text is
\* no JSON value.
In_Construct(doc) ==
  LET a == [itsNextName |-> <<>>, itsDocument |-> doc, itsIteratorStack |-> <<>>]
  IN IF doc = <<>> THEN Threw(a, "ParseError")
     ELSE IF IsCompound(doc[1])
     THEN Done([a EXCEPT !.itsIteratorStack = <<ChildIterator(doc[1])>>], <<>>)
     ELSE Threw(a, "RootNotCompound")

\* JSONInputArchive::setNextName
In_setNextName(a, name) == [a EXCEPT !.itsNextName = name]

\* search made whenever a name is pending, the key at the cursor not looked at
In_search_AlwaysSearch(a) ==
  LET localNextName == a.itsNextName
      a1 == [a EXCEPT !.itsNextName = <<>>]
  IN IF localNextName # <<>>
     THEN LET s == Iterator_search(Top(a1.itsIteratorStack), localNextName[1])
          IN [a |-> [a1 EXCEPT !.itsIteratorStack = SetTop(@, s.it)],
              err |-> s.err]
     ELSE [a |-> a1, err |-> "none"]

\* search made only when the cursor has a key and the key differs
In_search_NullNameNoSearch(a) ==
  LET localNextName == a.itsNextName
      a1 == [a EXCEPT !.itsNextName = <<>>]
      actualName == Iterator_name(Top(a1.itsIteratorStack))
  IN IF localNextName # <<>> /\ actualName # <<>> /\ localNextName # actualName
     THEN LET s == Iterator_search(Top(a1.itsIteratorStack), localNextName[1])
          IN [a |-> [a1 EXCEPT !.itsIteratorStack = SetTop(@, s.it)],
              err |-> s.err]
     ELSE [a |-> a1, err |-> "none"]

\* search with the pending name cleared after the search, not before
In_search_ClearAfter(a) ==
  LET localNextName == a.itsNextName
      actualName == Iterator_name(Top(a.itsIteratorStack))
  IN IF localNextName # <<>> /\ (actualName = <<>> \/ localNextName # actualName)
     THEN LET s == Iterator_search(Top(a.itsIteratorStack), localNextName[1])
          IN [a |-> [a EXCEPT !.itsIteratorStack = SetTop(@, s.it),
                              !.itsNextName = IF s.err = "none" THEN <<>> ELSE @],
              err |-> s.err]
     ELSE [a |-> [a EXCEPT !.itsNextName = <<>>], err |-> "none"]

\* JSONInputArchive::search
In_search(a) ==
  LET localNextName == a.itsNextName
      a1 == [a EXCEPT !.itsNextName = <<>>]
      actualName == Iterator_name(Top(a1.itsIteratorStack))
  IN IF localNextName # <<>> /\ (actualName = <<>> \/ localNextName # actualName)
     THEN LET s == Iterator_search(Top(a1.itsIteratorStack), localNextName[1])
          IN [a |-> [a1 EXCEPT !.itsIteratorStack = SetTop(@, s.it)],
              err |-> s.err]
     ELSE [a |-> a1, err |-> "none"]

\* startNode that steps the cursor past the compound it enters
In_startNode_AdvanceParent(a) ==
  LET s == In_search(a)
  IN IF s.err # "none" THEN Threw(s.a, s.err)
     ELSE LET currentValue == Iterator_value(Top(s.a.itsIteratorStack))
          IN IF currentValue.err # "none" THEN Threw(s.a, currentValue.err)
             ELSE IF IsCompound(currentValue.v)
             THEN Done([s.a EXCEPT !.itsIteratorStack =
                          Append(SetTop(@, Iterator_inc(Top(@))),
                                 ChildIterator(currentValue.v))], <<>>)
             ELSE Threw(s.a, "NotCompound")

\* JSONInputArchive::startNode
In_startNode(a) ==
  LET s == In_search(a)
  IN IF s.err # "none" THEN Threw(s.a, s.err)
     ELSE LET currentValue == Iterator_value(Top(s.a.itsIteratorStack))
          IN IF currentValue.err # "none" THEN Threw(s.a, currentValue.err)
             ELSE IF IsCompound(currentValue.v)
             THEN Done([s.a EXCEPT !.itsIteratorStack =
                          Append(@, ChildIterator(currentValue.v))], <<>>)
             ELSE Threw(s.a, "NotCompound")

\* finishNode that steps the cursor one level up twice
In_finishNode_SkipTwo(a) ==
  LET popped == Pop(a.itsIteratorStack)
  IN [a EXCEPT !.itsIteratorStack =
        IF popped = <<>> THEN popped
        ELSE SetTop(popped, Iterator_inc(Iterator_inc(Top(popped))))]

\* finishNode without the increment of the cursor one level up
In_finishNode_NoAdvance(a) == [a EXCEPT !.itsIteratorStack = Pop(@)]

\* JSONInputArchive::finishNode
In_finishNode(a) ==
  LET popped == Pop(a.itsIteratorStack)
  IN [a EXCEPT !.itsIteratorStack =
        IF popped = <<>> THEN popped ELSE SetTop(popped, Iterator_inc(Top(popped)))]

\* every integer target loaded through the small signed overload
Extract_AllSmallSigned(e, t) ==
  IF t \in {"int", "unsigned", "int64_t", "uint64_t"}
  THEN LET g == get_int64(e)
       IN IF g.err = "none" THEN [err |-> "none", v |-> CastInt32(g.v)] ELSE g
  ELSE IF t = "bool" THEN get_bool(e)
  ELSE IF t = "string" THEN get_string(e)
  ELSE [err |-> "IncorrectType"]

\* JSONInputArchive::stringToNumber into a long double: std::stold reads
\* the longest prefix of str that is a decimal number and throws
\* std::invalid_argument when there is none
stringToNumber(str) ==
  LET Shaped(j) ==
        LET body == IF j > 0 /\ str[1] = "-" THEN SubSeq(str, 2, j)
                    ELSE SubSeq(str, 1, j)
        IN /\ \A k \in 1..Len(body) : IsDigit(body[k]) \/ body[k] = "."
           /\ Cardinality({k \in 1..Len(body) : body[k] = "."}) <= 1
      n == CHOOSE m \in 0..Len(str) :
             Shaped(m) /\ \A k \in (m + 1)..Len(str) : ~Shaped(k)
      prefix == SubSeq(str, 1, n)
  IN IF DigitsOf(prefix) = <<>> THEN [err |-> "InvalidArgument"]
     ELSE [err |-> "none", v |-> CharsToF(prefix)]

\* what loadValue extracts from element e into a target of type t. The
\* nullptr overload checks the value with SER20_RAPIDJSON_ASSERT only: where
\* the macro throws or aborts the read fails ("nullptr_t"), where it is
\* compiled out the read goes on ("nullptr_t (NDEBUG)"), and In_loadValue
\* does not even call Iterator::value, the argument of the macro.
Extract(e, t) ==
  CASE t = "bool" -> get_bool(e)
    [] t = "int" ->
         LET g == get_int64(e)
         IN IF g.err = "none" THEN [err |-> "none", v |-> CastInt32(g.v)] ELSE g
    [] t = "unsigned" ->
         LET g == get_uint64(e)
         IN IF g.err = "none" THEN [err |-> "none", v |-> CastUint32(g.v)] ELSE g
    [] t = "int64_t" -> get_int64(e)
    [] t = "uint64_t" -> get_uint64(e)
    [] t = "double" -> get_double(e)
    [] t = "string" -> get_string(e)
    [] t = "nullptr_t" ->
         IF e.k = "null" THEN [err |-> "none", v |-> <<>>] ELSE [err |-> "AssertNull"]
    [] t = "nullptr_t (NDEBUG)" -> [err |-> "none", v |-> <<>>]
    [] t = "long double" ->
         LET g == get_string(e)
         IN IF g.err = "none" THEN stringToNumber(g.v) ELSE g

\* loadValue that advances the cursor of every level
In_loadValue_AdvanceAll(a, t) ==
  LET s == In_search(a)
  IN IF s.err # "none" THEN Threw(s.a, s.err)
     ELSE LET cur == Iterator_value(Top(s.a.itsIteratorStack))
          IN IF cur.err # "none" THEN Threw(s.a, cur.err)
             ELSE LET x == Extract(cur.v, t)
                  IN IF x.err # "none" THEN Threw(s.a, x.err)
                     ELSE Done([s.a EXCEPT !.itsIteratorStack =
                                  [i \in 1..Len(@) |-> Iterator_inc(@[i])]],
                               <<[t |-> t, v |-> x.v]>>)

\* loadValue that steps from the position the cursor had before the search
In_loadValue_ResumeFromOld(a, t) ==
  LET s == In_search(a)
  IN IF s.err # "none" THEN Threw(s.a, s.err)
     ELSE LET cur == Iterator_value(Top(s.a.itsIteratorStack))
          IN IF cur.err # "none" THEN Threw(s.a, cur.err)
             ELSE LET x == Extract(cur.v, t)
                  IN IF x.err # "none" THEN Threw(s.a, x.err)
                     ELSE Done([s.a EXCEPT !.itsIteratorStack =
                                  SetTop(@, Iterator_inc(Top(a.itsIteratorStack)))],
                               <<[t |-> t, v |-> x.v]>>)

\* JSONInputArchive::loadValue into a target of type t: search, extract the
\* value at the top iterator, advance the top iterator
In_loadValue(a, t) ==
  LET s == In_search(a)
  IN IF s.err # "none" THEN Threw(s.a, s.err)
     ELSE IF t = "nullptr_t (NDEBUG)"
     THEN Done([s.a EXCEPT !.itsIteratorStack = SetTop(@, Iterator_inc(Top(@)))],
               <<[t |-> t, v |-> <<>>]>>)
     ELSE LET cur == Iterator_value(Top(s.a.itsIteratorStack))
          IN IF cur.err # "none" THEN Threw(s.a, cur.err)
             ELSE LET x == Extract(cur.v, t)
                  IN IF x.err # "none" THEN Threw(s.a, x.err)
                     ELSE Done([s.a EXCEPT !.itsIteratorStack =
                                  SetTop(@, Iterator_inc(Top(@)))],
                               <<[t |-> t, v |-> x.v]>>)

\* loadBinaryValue without the comparison of the sizes
loadBinaryValue_NoSizeCheck(a, size, name) ==
  LET r == In_loadValue(In_setNextName(a, name), "string")
  IN IF r.err # "none" THEN Threw(r.a, r.err)
     ELSE Done(In_setNextName(r.a, <<>>), <<Base64Decode(r.ret[1].v)>>)

\* JSONInputArchive::loadBinaryValue into a buffer of size bytes: ret is
\* <<bytes copied into the buffer>>, or <<>> when nothing was copied
loadBinaryValue(a, size, name) ==
  LET r == In_loadValue(In_setNextName(a, name), "string")
  IN IF r.err # "none" THEN Threw(r.a, r.err)
     ELSE LET decoded == Base64Decode(r.ret[1].v)
          IN IF size # Len(decoded) THEN Threw(r.a, "SizeMismatch")
             ELSE Done(In_setNextName(r.a, <<>>), <<decoded>>)

\* the size of the document root at every depth
loadSize_AlwaysRoot(a) == Done(a, <<Len(a.itsDocument[1].m)>>)

\* JSONInputArchive::loadSize
loadSize(a) ==
  IF Len(a.itsIteratorStack) = 1
  THEN Done(a, <<Len(a.itsDocument[1].m)>>)
  ELSE LET parentValue == Iterator_value(a.itsIteratorStack[Len(a.itsIteratorStack) - 1])
       IN IF parentValue.err # "none" THEN Threw(a, parentValue.err)
          ELSE IF IsCompound(parentValue.v) THEN Done(a, <<Len(parentValue.v.m)>>)
          ELSE Threw(a, "ParentNotCompound")

(***************************************************************************)
(* The calls the serialization framework makes.                            *)
(***************************************************************************)
NameA == <<"a">>
NameB == <<"b">>
NameC == <<"c">>

\* the names the write side gives: nullptr or a name
OutNames == {<<>>, <<NameA>>, <<NameB>>}

Int7 == [t |-> "int", v |-> Z(FALSE, 7, 0, 0, 0)]
StrS == [t |-> "string", v |-> <<"s">>]

\* the scalars the write side saves, as a sequence (no set holds values of
\* different types)
OutValues == <<Int7, StrS>>

OutData == {<<77>>}

NoInputArchive ==
  [itsNextName |-> <<>>, itsDocument |-> <<>>, itsIteratorStack |-> <<>>]

NoOutputArchive ==
  [itsNextName |-> <<>>, itsNameCounter |-> <<>>, itsNodeStack |-> <<>>,
   itsWriter |-> <<>>]

OutCall(c) == [ar |-> "out", c |-> c]

InCall(c) == [ar |-> "in", c |-> c]

Depth == Len(oar.itsNodeStack)

(***************************************************************************)
(* SpecW: the write-side archive under every sequence of calls, up to its  *)
(* destruction. finishNode is called for a started node only.              *)
(***************************************************************************)
InitW ==
  /\ oar = Out_Construct
  /\ olife = "live"
  /\ iar = NoInputArchive
  /\ ilife = "none"
  /\ op = OutCall("construct")
  /\ calls = <<>>
  /\ rpos = 0
  /\ err = "none"
  /\ ret = <<>>

CanCall == olife = "live" /\ Len(calls) < MaxCalls

W_startNode ==
  /\ CanCall
  /\ Depth < MaxDepth
  /\ oar' = Out_startNode(oar)
  /\ op' = OutCall("startNode")
  /\ calls' = Append(calls, [c |-> "startNode"])
  /\ UNCHANGED <<olife, iar, ilife, rpos, err, ret>>

W_finishNode ==
  /\ CanCall
  /\ Depth > 1
  /\ oar' = Out_finishNode(oar)
  /\ op' = OutCall("finishNode")
  /\ calls' = Append(calls, [c |-> "finishNode"])
  /\ UNCHANGED <<olife, iar, ilife, rpos, err, ret>>

W_setNextName ==
  /\ CanCall
  /\ \E name \in OutNames :
       /\ oar' = Out_setNextName(oar, name)
       /\ calls' = Append(calls, [c |-> "setNextName", n |-> name])
  /\ op' = OutCall("setNextName")
  /\ UNCHANGED <<olife, iar, ilife, rpos, err, ret>>

W_makeArray ==
  /\ CanCall
  /\ oar' = makeArray(oar)
  /\ op' = OutCall("makeArray")
  /\ calls' = Append(calls, [c |-> "makeArray"])
  /\ UNCHANGED <<olife, iar, ilife, rpos, err, ret>>

W_save ==
  /\ CanCall
  /\ \E i \in 1..Len(OutValues) :
       /\ oar' = Out_save(oar, OutValues[i])
       /\ calls' = Append(calls, [c |-> "save", x |-> OutValues[i]])
  /\ op' = OutCall("save")
  /\ UNCHANGED <<olife, iar, ilife, rpos, err, ret>>

W_saveBinaryValue ==
  /\ CanCall
  /\ \E data \in OutData, name \in OutNames :
       /\ oar' = saveBinaryValue(oar, data, name)
       /\ calls' = Append(calls, [c |-> "saveBinaryValue", d |-> data, n |-> name])
  /\ op' = OutCall("saveBinaryValue")
  /\ UNCHANGED <<olife, iar, ilife, rpos, err, ret>>

W_destroy ==
  /\ olife = "live"
  /\ oar' = Out_Destroy(oar)
  /\ olife' = "destroyed"
  /\ op' = OutCall("destroy")
  /\ UNCHANGED <<iar, ilife, calls, rpos, err, ret>>

NextW ==
  \/ W_startNode
  \/ W_finishNode
  \/ W_setNextName
  \/ W_makeArray
  \/ W_save
  \/ W_saveBinaryValue
  \/ W_destroy

SpecW == InitW /\ [][NextW]_vars

(***************************************************************************)
(* Helpers of the properties of the write side.                            *)
(***************************************************************************)
\* the writer calls a step added
NewEvents == SubSeq(oar'.itsWriter, Len(oar.itsWriter) + 1, Len(oar'.itsWriter))

\* a step that writes one member: a scalar, a binary value or a node
MemberWrite == op'.ar = "out" /\ op'.c \in {"save", "saveBinaryValue", "startNode"}

\* the name that is pending when the member of this step is written
PendingAtWrite ==
  IF op'.c = "saveBinaryValue" THEN Top(calls').n ELSE oar.itsNextName

RECURSIVE TagOkFrom(_, _, _)
\* cs from i on calls makeArray only on levels that have no member yet;
\* written[d] tells whether level d has one
TagOkFrom(cs, i, written) ==
  IF i > Len(cs) THEN TRUE
  ELSE LET c == cs[i].c
       IN IF c = "makeArray"
          THEN ~Top(written) /\ TagOkFrom(cs, i + 1, written)
          ELSE IF c = "startNode"
          THEN TagOkFrom(cs, i + 1, Append(SetTop(written, TRUE), FALSE))
          ELSE IF c = "finishNode" THEN TagOkFrom(cs, i + 1, Pop(written))
          ELSE IF c \in {"save", "saveBinaryValue"}
          THEN TagOkFrom(cs, i + 1, SetTop(written, TRUE))
          ELSE TagOkFrom(cs, i + 1, written)

\* makeArray was called only on levels before their first write
ArrayTagOk(cs) == TagOkFrom(cs, 1, <<FALSE>>)

\* the innermost compound that is open in the text written so far
OpenFrame(evs) ==
  Top(ParseFrom([stack |-> <<>>, root |-> <<>>, bad |-> FALSE],
                WriterText(evs), 1).stack)

IsSynthesized(key) ==
  Len(key) > 5 /\ SubSeq(key, 1, 5) = <<"v", "a", "l", "u", "e">>

\* how many members of the current level carry a synthesized key
SynthCount(a) ==
  IF Top(a.itsNodeStack) = "StartObject" THEN 0
  ELSE LET m == OpenFrame(a.itsWriter).m
       IN Cardinality({i \in 1..Len(m) : IsSynthesized(m[i].key)})

\* the key a member-writing step emitted at an object level: the first
\* writer call of the step, after the call that opens the level
KeyEvent ==
  IF Top(oar.itsNodeStack) = "StartObject" THEN NewEvents[2] ELSE NewEvents[1]

\* C7: finishNode emits exactly the close sequence of the state of the top
\* level (StartObject: StartObject, EndObject; InObject: EndObject;
\* StartArray: StartArray, EndArray; InArray: EndArray) and pops that level.
C7_FinishNodeCloses ==
  [][(op'.ar = "out" /\ op'.c = "finishNode") =>
       LET t == Top(oar.itsNodeStack)
           so == [op |-> "StartObject"]
           eo == [op |-> "EndObject"]
           sa == [op |-> "StartArray"]
           ea == [op |-> "EndArray"]
       IN /\ t = "StartObject" => NewEvents = <<so, eo>>
          /\ t = "InObject" => NewEvents = <<eo>>
          /\ t = "StartArray" => NewEvents = <<sa, ea>>
          /\ t = "InArray" => NewEvents = <<ea>>
          /\ SubSeq(oar'.itsWriter, 1, Len(oar.itsWriter)) = oar.itsWriter
          /\ oar'.itsNodeStack = Pop(oar.itsNodeStack)
          /\ oar'.itsNameCounter = Pop(oar.itsNameCounter)]_vars

\* startNode, makeArray, finishNode has just emitted an empty array
C7_Witness ==
  /\ op = OutCall("finishNode")
  /\ Len(calls) >= 3
  /\ calls[Len(calls) - 1].c = "makeArray"
  /\ calls[Len(calls) - 2].c = "startNode"
  /\ Len(oar.itsWriter) >= 2
  /\ oar.itsWriter[Len(oar.itsWriter) - 1] = [op |-> "StartArray"]
  /\ Top(oar.itsWriter) = [op |-> "EndArray"]

\* C6: at an object level, a member written with no pending name gets the
\* key "value" + k, k the number of members of that level that already
\* carry a synthesized key (named members and deeper levels do not count).
C6_UnnamedGetsValueK ==
  [][(/\ MemberWrite
      /\ PendingAtWrite = <<>>
      /\ Top(oar.itsNodeStack) \in {"StartObject", "InObject"}
      /\ ArrayTagOk(calls)) =>
       /\ KeyEvent.op = "String"
       /\ KeyEvent.v = <<"v", "a", "l", "u", "e">> \o NatToChars(SynthCount(oar))]_vars

\* a named scalar, an unnamed node and an unnamed scalar were written at
\* the root: the node got value0 and the scalar, just written, value1
C6_Witness ==
  /\ op = OutCall("save")
  /\ Len(calls) = 5
  /\ calls[1].c = "setNextName"
  /\ calls[1].n # <<>>
  /\ calls[2].c = "save"
  /\ calls[3].c = "startNode"
  /\ calls[4].c = "finishNode"
  /\ Len(oar.itsWriter) >= 2
  /\ oar.itsWriter[Len(oar.itsWriter) - 1].op = "String"
  /\ oar.itsWriter[Len(oar.itsWriter) - 1].v = <<"v", "a", "l", "u", "e", "1">>

\* the depth of the compounds opened and not closed in the writer
RECURSIVE OpenDepth(_)
OpenDepth(evs) ==
  IF evs = <<>> THEN 0
  ELSE OpenDepth(Pop(evs))
         + (IF Top(evs).op \in {"StartObject", "StartArray"} THEN 1
            ELSE IF Top(evs).op \in {"EndObject", "EndArray"} THEN 0 - 1
            ELSE 0)

\* C9: after the destructor, every compound opened in the writer is closed.
C9_DestroyClosesAll ==
  olife = "destroyed" => OpenDepth(oar.itsWriter) = 0

\* C10: after startNode, a scalar write or saveBinaryValue, no name is
\* pending.
C10_PendingNameCleared ==
  (op.ar = "out" /\ op.c \in {"startNode", "save", "saveBinaryValue"}) =>
    oar.itsNextName = <<>>

\* C20: at a level that makeArray marked before its first write, a scalar
\* or a buffer, named or not, is emitted as its one value event, after the
\* StartArray when it is the first, and a startNode emits nothing but that
\* StartArray: no key is written, and the innermost open compound of the
\* text is the array. makeArray, which is all a SizeTag does, emits nothing.
C20_SequenceIsKeylessArray ==
  [][/\ (op'.ar = "out" /\ op'.c = "makeArray") => NewEvents = <<>>
     /\ (/\ MemberWrite
         /\ Top(oar.itsNodeStack) \in {"StartArray", "InArray"}
         /\ ArrayTagOk(calls')) =>
          LET c == Top(calls')
              first == Top(oar.itsNodeStack) = "StartArray"
              value == IF first THEN SubSeq(NewEvents, 2, Len(NewEvents))
                       ELSE NewEvents
          IN /\ first => (NewEvents # <<>> /\ NewEvents[1].op = "StartArray")
             /\ c.c = "startNode" =>
                  /\ value = <<>>
                  /\ Pop(oar'.itsNodeStack) = SetTop(oar.itsNodeStack, "InArray")
             /\ c.c = "save" =>
                  /\ Len(value) = 1
                  /\ value[1].op = Top(saveValue(oar, c.x).itsWriter).op
                  /\ value = <<Top(saveValue(oar, c.x).itsWriter)>>
             /\ c.c = "saveBinaryValue" =>
                  /\ Len(value) = 1
                  /\ value[1].op = "String"
                  /\ value[1].v = Base64Encode(c.d)
             /\ OpenFrame(oar'.itsWriter).k = "array"
             /\ Len(OpenFrame(oar'.itsWriter).m) =
                  (IF first THEN 0 ELSE Len(OpenFrame(oar.itsWriter).m))
                  + (IF c.c = "startNode" THEN 0 ELSE 1)]_vars

\* makeArray, setNextName a, the string s, setNextName b, startNode: the
\* writer has StartArray and the string, and no key
C20_Witness ==
  /\ op = OutCall("startNode")
  /\ Len(calls) = 5
  /\ calls[1].c = "makeArray"
  /\ calls[2].c = "setNextName"
  /\ calls[2].n = <<NameA>>
  /\ calls[3].c = "save"
  /\ calls[4].c = "setNextName"
  /\ calls[4].n = <<NameB>>
  /\ Len(oar.itsWriter) = 2
  /\ oar.itsWriter[1].op = "StartArray"
  /\ oar.itsWriter[2].op = "String"
  /\ oar.itsWriter[2].v = StrS.v

\* the number of calls c made so far
CallCount(c) == Cardinality({i \in 1..Len(calls) : calls[i].c = c})

OpenEvents ==
  {j \in 1..Len(NewEvents) : NewEvents[j].op \in {"StartObject", "StartArray"}}

\* a step that writes a member of the top level or finishes it: a level in
\* a Start state has no open event yet and gets exactly one, of its kind; a
\* level in an In state has its one open event, of its kind, and gets no
\* other; and finishNode closes with the event of the kind of the state
OpenedOnceStep ==
  (op'.ar = "out" /\ op'.c \in {"save", "saveBinaryValue", "startNode", "finishNode"}) =>
    LET top == Top(oar.itsNodeStack)
        d == Len(oar.itsNodeStack)
    IN /\ (top \in {"StartObject", "StartArray"} =>
             (/\ OpenDepth(oar.itsWriter) = d - 1
              /\ Cardinality(OpenEvents) = 1
              /\ NewEvents[1].op = top))
       /\ (top \in {"InObject", "InArray"} =>
             (/\ OpenDepth(oar.itsWriter) = d
              /\ OpenEvents = {}
              /\ OpenFrame(oar.itsWriter).k =
                   (IF top = "InObject" THEN "object" ELSE "array")))
       /\ (op'.c = "finishNode" =>
             Top(NewEvents).op =
               (IF top \in {"StartObject", "InObject"} THEN "EndObject"
                ELSE "EndArray"))

\* C24 (amended): when makeArray is called only on a level that has not
\* been written to, each level is opened exactly once, on its first write
\* or at its finishNode, and is closed by the event of the kind of its open
\* event.
C24_LevelOpenedOnce == [][ArrayTagOk(calls') => OpenedOnceStep]_vars

\* C24 (as claimed): the same over every sequence of calls.
C24_AnySequence == [][OpenedOnceStep]_vars

\* makeArray, startNode, makeArray, a scalar, finishNode: the writer has
\* StartArray, StartArray, the scalar, EndArray
C24_Witness ==
  /\ op = OutCall("finishNode")
  /\ Len(calls) = 5
  /\ calls[1].c = "makeArray"
  /\ calls[2].c = "startNode"
  /\ calls[3].c = "makeArray"
  /\ calls[4].c = "save"
  /\ Len(oar.itsWriter) = 4
  /\ oar.itsWriter[1].op = "StartArray"
  /\ oar.itsWriter[2].op = "StartArray"
  /\ oar.itsWriter[4].op = "EndArray"

\* C27: startNode emits what the name resolution of the enclosing level
\* emits and nothing else (the open event of that level if it was in a
\* Start state, then, in an object, the pending name or else the
\* synthesized one), leaves that level in its In state, and pushes one
\* level in state StartObject with name counter 0, for which no event is
\* emitted; setNextName and makeArray emit nothing.
C27_StartNodeOrdering ==
  [][/\ ((op'.ar = "out" /\ op'.c = "startNode") =>
           LET top == Top(oar.itsNodeStack)
               inObject == top \in {"StartObject", "InObject"}
               synth == inObject /\ oar.itsNextName = <<>>
               open == IF top \in {"StartObject", "StartArray"}
                       THEN <<[op |-> top]>> ELSE <<>>
               key == SubSeq(NewEvents, Len(open) + 1, Len(NewEvents))
           IN /\ Len(NewEvents) = Len(open) + (IF inObject THEN 1 ELSE 0)
              /\ SubSeq(NewEvents, 1, Len(open)) = open
              /\ (inObject =>
                    (/\ key[1].op = "String"
                     /\ key[1].v = (IF synth THEN ValueName(Top(oar.itsNameCounter))
                                    ELSE oar.itsNextName[1])))
              /\ oar'.itsNodeStack =
                   Append(SetTop(oar.itsNodeStack,
                                 IF inObject THEN "InObject" ELSE "InArray"),
                          "StartObject")
              /\ oar'.itsNameCounter =
                   Append(SetTop(oar.itsNameCounter,
                                 Top(oar.itsNameCounter) + (IF synth THEN 1 ELSE 0)),
                          0))
     /\ ((op'.ar = "out" /\ op'.c \in {"setNextName", "makeArray"}) =>
           NewEvents = <<>>)]_vars

\* setNextName a, startNode, startNode: the writer has StartObject, the key
\* a, StartObject, the key value0, and no event of the third level
C27_Witness ==
  /\ op = OutCall("startNode")
  /\ Len(calls) = 3
  /\ calls[1].c = "setNextName"
  /\ calls[1].n = <<NameA>>
  /\ calls[2].c = "startNode"
  /\ oar.itsNodeStack = <<"InObject", "InObject", "StartObject">>
  /\ oar.itsNameCounter = <<0, 1, 0>>
  /\ Len(oar.itsWriter) = 4
  /\ oar.itsWriter[2].v = NameA
  /\ oar.itsWriter[3].op = "StartObject"
  /\ oar.itsWriter[4].v = ValueName(0)

\* the parser state at the end of the text of the writer calls evs
TextState(evs) ==
  ParseFrom([stack |-> <<>>, root |-> <<>>, bad |-> FALSE], WriterText(evs), 1)

\* C29 (as claimed): a step that writes a member at an object level emits
\* its key, the pending name or else the synthesized one, right before the
\* value; and in the text the destructor leaves, no value of an object
\* lacks a key and no key lacks a value.
C29_EveryMemberKeyed ==
  [][/\ ((/\ MemberWrite
          /\ Top(oar.itsNodeStack) \in {"StartObject", "InObject"}) =>
           (/\ KeyEvent.op = "String"
            /\ KeyEvent.v = (IF PendingAtWrite # <<>> THEN PendingAtWrite[1]
                             ELSE ValueName(Top(oar.itsNameCounter)))
            /\ (op'.c # "startNode" => KeyEvent = NewEvents[Len(NewEvents) - 1])
            /\ (op'.c = "startNode" => KeyEvent = Top(NewEvents))))
     /\ ((op'.ar = "out" /\ op'.c = "destroy") =>
           LET st == TextState(oar'.itsWriter)
           IN /\ ~st.bad
              /\ \A i \in 1..Len(st.stack) : st.stack[i].key = <<>>)]_vars

RECURSIVE NestFrom(_, _, _)
\* the events of evs from i on, read against the kinds of the levels that
\* are open: a close must name the kind of the innermost open level, no
\* key or value stands outside every level, and nothing follows the close
\* of the outermost level
NestFrom(st, evs, i) ==
  IF i > Len(evs) \/ st.bad THEN st
  ELSE LET e == evs[i].op
       IN NestFrom(
            IF st.done THEN [st EXCEPT !.bad = TRUE]
            ELSE IF e = "StartObject" THEN [st EXCEPT !.open = Append(@, "object")]
            ELSE IF e = "StartArray" THEN [st EXCEPT !.open = Append(@, "array")]
            ELSE IF e \in {"EndObject", "EndArray"}
            THEN IF st.open = <<>>
                    \/ Top(st.open) # (IF e = "EndObject" THEN "object" ELSE "array")
                 THEN [st EXCEPT !.bad = TRUE]
                 ELSE [st EXCEPT !.open = Pop(@), !.done = (Len(st.open) = 1)]
            ELSE IF st.open = <<>> THEN [st EXCEPT !.bad = TRUE]
            ELSE st,
            evs, i + 1)

\* the events form one compound value, every open closed by a close of
\* its kind in last-in-first-out order
WellNested(evs) ==
  LET st == NestFrom([open |-> <<>>, done |-> FALSE, bad |-> FALSE], evs, 1)
  IN ~st.bad /\ st.done /\ st.open = <<>>

\* C30: when makeArray is called only on levels not yet written, every
\* writer call is made at the nesting depth of the node stack: after an
\* open, key or value event the text is as deep as the stack is at the
\* call, and a close event takes it one level up; and when moreover every
\* started node was finished and the root has a member, the events the
\* destructor leaves form exactly one value, an object or an array, with
\* every open closed by a close of its kind, innermost first.
C30_WellNested ==
  [][(op'.ar = "out" /\ ArrayTagOk(calls')) =>
       LET d == Len(oar.itsNodeStack)
           before == OpenDepth(oar.itsWriter)
           new == NewEvents
       IN /\ \A j \in 1..Len(new) :
               before + OpenDepth(SubSeq(new, 1, j)) =
                 (IF new[j].op \in {"EndObject", "EndArray"} THEN d - 1 ELSE d)
          /\ ((/\ op'.c = "destroy"
               /\ d = 1
               /\ Top(oar.itsNodeStack) \in {"InObject", "InArray"}) =>
                /\ WellNested(oar'.itsWriter)
                /\ oar'.itsWriter[1].op = (IF Top(oar.itsNodeStack) = "InObject"
                                           THEN "StartObject" ELSE "StartArray")
                /\ OpenDepth(oar'.itsWriter) = 0)]_vars

\* startNode, makeArray, a scalar, finishNode and the destructor have
\* written an object whose one member is an array of one element
C30_Witness ==
  /\ olife = "destroyed"
  /\ Len(calls) = 4
  /\ calls[1].c = "startNode"
  /\ calls[2].c = "makeArray"
  /\ calls[3].c = "save"
  /\ calls[4].c = "finishNode"
  /\ Len(oar.itsWriter) = 6
  /\ oar.itsWriter[6].op = "EndObject"
  /\ Parse(WriterText(oar.itsWriter)) # <<>>
  /\ Parse(WriterText(oar.itsWriter))[1].m[1].val.k = "array"

(***************************************************************************)
(* SpecRT: a document is written by a well-bracketed sequence of calls     *)
(* (a name is given only to a member of an object level, makeArray is      *)
(* called only on a level before its first write, every started node is    *)
(* finished, the root gets at least one member), the archive is destroyed, *)
(* and the text is read back by the same sequence of calls on the read     *)
(* side: startNode, finishNode, setNextName with the same name, loadValue  *)
(* into the type that was saved, and loadSize where the size tag made the  *)
(* level an array.                                                         *)
(***************************************************************************)
NameFitsLevel ==
  oar.itsNextName # <<>> => Top(oar.itsNodeStack) \in {"StartObject", "InObject"}

RT_startNode == NameFitsLevel /\ W_startNode

RT_finishNode == W_finishNode

RT_setNextName == W_setNextName

RT_makeArray == Top(oar.itsNodeStack) \in {"StartObject", "StartArray"} /\ W_makeArray

RT_save == NameFitsLevel /\ W_save

RT_destroy ==
  /\ Depth = 1
  /\ Top(oar.itsNodeStack) \in {"InObject", "InArray"}
  /\ W_destroy

\* the outcome r of a read-side call c
ReadOutcome(r, c) ==
  /\ iar' = r.a
  /\ ilife' = IF r.err = "none" THEN "live" ELSE "failed"
  /\ err' = r.err
  /\ ret' = r.ret
  /\ op' = InCall(c)

\* the read-side archive is constructed on the text the writer put out
RT_construct ==
  /\ olife = "destroyed"
  /\ ilife = "none"
  /\ ReadOutcome(In_Construct(Parse(WriterText(oar.itsWriter))), "construct")
  /\ UNCHANGED <<oar, olife, calls, rpos>>

Replaying(c) ==
  /\ ilife = "live"
  /\ rpos < Len(calls)
  /\ calls[rpos + 1].c = c
  /\ rpos' = rpos + 1
  /\ UNCHANGED <<oar, olife, calls>>

RT_read_startNode ==
  Replaying("startNode") /\ ReadOutcome(In_startNode(iar), "startNode")

RT_read_finishNode ==
  Replaying("finishNode") /\ ReadOutcome(Done(In_finishNode(iar), <<>>), "finishNode")

RT_read_setNextName ==
  /\ Replaying("setNextName")
  /\ ReadOutcome(Done(In_setNextName(iar, calls[rpos + 1].n), <<>>), "setNextName")

RT_read_loadSize ==
  Replaying("makeArray") /\ ReadOutcome(loadSize(iar), "loadSize")

RT_read_loadValue ==
  /\ Replaying("save")
  /\ ReadOutcome(In_loadValue(iar, calls[rpos + 1].x.t), "loadValue")

InitRT == InitW

NextRT ==
  \/ RT_startNode
  \/ RT_finishNode
  \/ RT_setNextName
  \/ RT_makeArray
  \/ RT_save
  \/ RT_destroy
  \/ RT_construct
  \/ RT_read_startNode
  \/ RT_read_finishNode
  \/ RT_read_setNextName
  \/ RT_read_loadSize
  \/ RT_read_loadValue

SpecRT == InitRT /\ [][NextRT]_vars

\* C1: reading a written document back with the calls that wrote it raises
\* no error, and every scalar read returns the value written at that step.
C1_StructuralRoundTrip ==
  /\ ilife # "failed"
  /\ err = "none"
  /\ (op = InCall("loadValue") =>
        /\ ret # <<>>
        /\ ret[1].t = calls[rpos].x.t
        /\ ret[1].v = calls[rpos].x.v)

\* a document with a nested node, a named member and an array has been read
\* back to its last call
C1_Witness ==
  /\ ilife = "live"
  /\ rpos = Len(calls)
  /\ op = InCall("loadValue")
  /\ \E i \in 1..Len(calls) : calls[i].c = "setNextName" /\ calls[i].n # <<>>
  /\ \E i \in 1..Len(calls) : calls[i].c = "finishNode"

(***************************************************************************)
(* SpecScalar: one scalar of every supported type, among them the boundary *)
(* values of the integer types, is written as the only member of the root  *)
(* (named or not, in an object or in an array) and read back into a target *)
(* of the same type.                                                       *)
(***************************************************************************)
IntValues ==
  {Z(FALSE, 0, 0, 0, 0), Z(FALSE, 1, 0, 0, 0), Z(TRUE, 1, 0, 0, 0),
   Z(FALSE, LimbMax, HalfLimb - 1, 0, 0),        \* 2^31 - 1
   Z(TRUE, 0, HalfLimb, 0, 0)}                   \* -2^31

UnsignedValues ==
  {Z(FALSE, 0, 0, 0, 0), Z(FALSE, LimbMax, HalfLimb - 1, 0, 0),
   Z(FALSE, 0, HalfLimb, 0, 0),                  \* 2^31
   Z(FALSE, LimbMax, LimbMax, 0, 0)}             \* 2^32 - 1

Int64Values ==
  IntValues \cup
  {Z(FALSE, 0, HalfLimb, 0, 0),                  \* 2^31
   Z(TRUE, 1, HalfLimb, 0, 0),                   \* -2^31 - 1
   Z(FALSE, 0, 0, 1, 0),                         \* 2^32
   Z(FALSE, LimbMax, LimbMax, LimbMax, HalfLimb - 1),   \* 2^63 - 1
   Z(TRUE, LimbMax, LimbMax, LimbMax, HalfLimb - 1),    \* -(2^63 - 1)
   Z(TRUE, 0, 0, 0, HalfLimb)}                   \* -2^63

Uint64Values ==
  UnsignedValues \cup
  {Z(FALSE, 0, 0, 1, 0),
   Z(FALSE, LimbMax, LimbMax, LimbMax, HalfLimb - 1),   \* 2^63 - 1
   Z(FALSE, 0, 0, 0, HalfLimb),                  \* 2^63
   Z(FALSE, LimbMax, LimbMax, LimbMax, LimbMax)} \* 2^64 - 1

StringValues == {<<>>, <<"s">>, <<"1", "2">>, <<"v", "a", "l", "u", "e", "0">>}

\* 0, 1, -1, 100, 0.5, 1.25, -2.75, 0.0625
FloatValues ==
  {F(FALSE, 0, 0), F(FALSE, 1, 0), F(TRUE, 1, 0), F(FALSE, 100, 0),
   F(FALSE, 1, 1), F(FALSE, 5, 2), F(TRUE, 11, 2), F(FALSE, 1, 4)}

ScalarTypes ==
  {"bool", "int", "unsigned", "int64_t", "uint64_t", "string", "nullptr_t",
   "long double", "double"}

\* the values of type t the model saves
ValuesOf(t) ==
  CASE t = "bool" -> BOOLEAN
    [] t = "int" -> IntValues
    [] t = "unsigned" -> UnsignedValues
    [] t = "int64_t" -> Int64Values
    [] t = "uint64_t" -> Uint64Values
    [] t = "string" -> StringValues
    [] t = "nullptr_t" -> {<<>>}
    [] t \in {"long double", "double"} -> FloatValues

S_makeArray == calls = <<>> /\ W_makeArray

S_setNextName ==
  /\ \A i \in 1..Len(calls) : calls[i].c = "makeArray"
  /\ NameFitsLevel
  /\ Top(oar.itsNodeStack) = "StartObject"
  /\ W_setNextName

S_save ==
  /\ olife = "live"
  /\ \A i \in 1..Len(calls) : calls[i].c # "save"
  /\ NameFitsLevel
  /\ \E t \in ScalarTypes :
       \E v \in ValuesOf(t) :
         /\ oar' = Out_save(oar, [t |-> t, v |-> v])
         /\ calls' = Append(calls, [c |-> "save", x |-> [t |-> t, v |-> v]])
  /\ op' = OutCall("save")
  /\ UNCHANGED <<olife, iar, ilife, rpos, err, ret>>

NextScalar ==
  \/ S_makeArray
  \/ S_setNextName
  \/ S_save
  \/ RT_destroy
  \/ RT_construct
  \/ RT_read_setNextName
  \/ RT_read_loadSize
  \/ RT_read_loadValue

SpecScalar == InitW /\ [][NextScalar]_vars

\* the value the write side saved
Saved == (CHOOSE i \in 1..Len(calls) : calls[i].c = "save")

\* C2: a scalar saved and loaded back into a target of its type is the
\* value that was saved, and no call of the read-back fails.
C2_ScalarRoundTrip ==
  /\ err = "none"
  /\ (op = InCall("loadValue") =>
        /\ ret # <<>>
        /\ ret[1].t = calls[Saved].x.t
        /\ ret[1].v = calls[Saved].x.v)

\* -2^63 has been read back as a 64-bit signed integer
C2_Witness ==
  /\ op = InCall("loadValue")
  /\ ret # <<>>
  /\ ret[1].t = "int64_t"
  /\ ret[1].v = [neg |-> TRUE, mag |-> <<0, 0, 0, 2^15>>]

(***************************************************************************)
(* SpecWide: one scalar is written as the first member of the root, with   *)
(* saveValue for a value of any supported type or with saveLong for a long *)
(* or unsigned long of 4 or of 8 bytes, the archive is destroyed, and the  *)
(* member is read into a long double.                                      *)
(***************************************************************************)
X_saveLong ==
  /\ olife = "live"
  /\ calls = <<>>
  /\ \E size \in {4, 8}, signed \in BOOLEAN :
       \E l \in (IF size = 4 THEN (IF signed THEN IntValues ELSE UnsignedValues)
                 ELSE (IF signed THEN Int64Values ELSE Uint64Values)) :
         /\ oar' = saveLong(writeName(oar), l, size, signed)
         /\ calls' = Append(calls, [c |-> "saveLong", l |-> l,
                                    size |-> size, signed |-> signed])
  /\ op' = OutCall("saveLong")
  /\ UNCHANGED <<olife, iar, ilife, rpos, err, ret>>

X_read_loadValue ==
  /\ ilife = "live"
  /\ rpos < Len(calls)
  /\ rpos' = rpos + 1
  /\ ReadOutcome(In_loadValue(iar, "long double"), "loadValue")
  /\ UNCHANGED <<oar, olife, calls>>

NextWide ==
  \/ (calls = <<>> /\ S_save)
  \/ X_saveLong
  \/ RT_destroy
  \/ RT_construct
  \/ X_read_loadValue

SpecWide == InitW /\ [][NextWide]_vars

\* C21: a long double is saved with the writer's String and with no number
\* primitive; read into a long double, the member written comes back as the
\* value saved when it was saved as a long double, any member that is a
\* JSON number fails the read, and a string is parsed by stringToNumber.
C21_WideAsString ==
  [][/\ ((op'.ar = "out" /\ op'.c = "save" /\ Top(calls').x.t = "long double") =>
           (/\ Len(NewEvents) = 3
            /\ NewEvents[1].op = "StartObject"
            /\ NewEvents[2].op = "String"
            /\ NewEvents[3].op = "String"
            /\ NewEvents[3].v = FixedChars(Top(calls').x.v)))
     /\ ((op'.ar = "in" /\ op'.c = "loadValue") =>
           LET c == calls[1]
               e == iar.itsDocument[1].m[1].val
           IN /\ ((c.c = "save" /\ c.x.t = "long double") =>
                    (/\ err' = "none"
                     /\ ret' # <<>>
                     /\ ret'[1].t = "long double"
                     /\ ret'[1].v = c.x.v))
              /\ (e.k \in {"int64", "uint64", "double"} =>
                    (err' = "IncorrectType" /\ ret' = <<>>))
              /\ (e.k = "string" =>
                    (/\ err' = stringToNumber(e.v).err
                     /\ (err' = "none" =>
                           (ret' # <<>> /\ ret'[1].v = stringToNumber(e.v).v)))))]_vars

\* -2.75 saved as a long double has been read back from the string "-2.75"
C21_Witness ==
  /\ op = InCall("loadValue")
  /\ err = "none"
  /\ calls[1].c = "save"
  /\ calls[1].x.t = "long double"
  /\ iar.itsDocument[1].m[1].val.k = "string"
  /\ iar.itsDocument[1].m[1].val.v = <<"-", "2", ".", "7", "5">>
  /\ ret # <<>>
  /\ ret[1].v = F(TRUE, 11, 2)

\* C22: saveLong writes a long of 4 bytes with the writer's Int (Uint for
\* an unsigned long) and one of 8 bytes with Int64 (Uint64), and the number
\* written is the value of the long, for the smallest and the largest
\* values of the type too.
C22_LongWidth ==
  [][(op'.ar = "out" /\ op'.c = "saveLong") =>
       LET c == Top(calls')
           ev == Top(oar'.itsWriter)
       IN /\ ev.op = (IF c.size = 4 THEN (IF c.signed THEN "Int" ELSE "Uint")
                      ELSE (IF c.signed THEN "Int64" ELSE "Uint64"))
          /\ ev.v = c.l
          /\ WriterToken(ev).v = IntToChars(c.l)]_vars

\* the unsigned long 2^64 - 1 of 8 bytes has been written as
\* 18446744073709551615 with Uint64
C22_Witness ==
  /\ op = OutCall("saveLong")
  /\ calls[1].size = 8
  /\ ~calls[1].signed
  /\ Top(oar.itsWriter).op = "Uint64"
  /\ Top(oar.itsWriter).v = Z(FALSE, LimbMax, LimbMax, LimbMax, LimbMax)
  /\ WriterToken(Top(oar.itsWriter)).v =
       <<"1", "8", "4", "4", "6", "7", "4", "4", "0", "7", "3", "7", "0", "9",
         "5", "5", "1", "6", "1", "5">>

(***************************************************************************)
(* SpecR: the read-side archive over a document of a bounded family, under *)
(* every sequence of calls. A call that throws leaves the archive as the   *)
(* throw left it, and the caller may go on calling. finishNode is called   *)
(* for a started node only. Here calls holds the last call only, and rpos  *)
(* counts the calls made.                                                  *)
(***************************************************************************)
NameZ == <<"z">>

Obj(ms) == [k |-> "object", m |-> ms]

Arr(es) == [k |-> "array", m |-> es]

Mem(key, val) == [key |-> key, val |-> val]

IntE(n) == [k |-> "int64", v |-> Z(FALSE, n, 0, 0, 0)]

StrE(cs) == [k |-> "string", v |-> cs]

\* what the parser hands to the constructor: <<document>>, or <<>> for a
\* text that is no JSON value
Documents ==
  << \* {"a":1,"b":2,"c":3}
     <<Obj(<<Mem(NameA, IntE(1)), Mem(NameB, IntE(2)), Mem(NameC, IntE(3))>>)>>,
     \* {}
     <<Obj(<<>>)>>,
     \* []
     <<Arr(<<>>)>>,
     \* {"a":[1,2,3,4,5],"b":"s"}
     <<Obj(<<Mem(NameA, Arr(<<IntE(1), IntE(2), IntE(3), IntE(4), IntE(5)>>)),
             Mem(NameB, StrE(<<"s">>))>>)>>,
     \* {"a":{},"b":[],"c":{"b":1,"a":"s"}}
     <<Obj(<<Mem(NameA, Obj(<<>>)), Mem(NameB, Arr(<<>>)),
             Mem(NameC, Obj(<<Mem(NameB, IntE(1)), Mem(NameA, StrE(<<"s">>))>>))>>)>>,
     \* [{"a":1,"b":true},[2,"s"],3]
     <<Arr(<<Obj(<<Mem(NameA, IntE(1)), Mem(NameB, [k |-> "bool", v |-> TRUE])>>),
             Arr(<<IntE(2), StrE(<<"s">>)>>), IntE(3)>>)>>,
     \* {"a":1,"a":2,"b":3}
     <<Obj(<<Mem(NameA, IntE(1)), Mem(NameA, IntE(2)), Mem(NameB, IntE(3))>>)>>,
     \* {"b":{"c":{"a":null}},"a":-1}
     <<Obj(<<Mem(NameB, Obj(<<Mem(NameC, Obj(<<Mem(NameA, [k |-> "null"])>>))>>)),
             Mem(NameA, [k |-> "int64", v |-> Z(TRUE, 1, 0, 0, 0)])>>)>>,
     \* 7
     <<IntE(7)>>,
     \* no JSON value
     <<>>,
     \* {"a":"TQ==","b":"AP8=","c":"s"}
     <<Obj(<<Mem(NameA, StrE(<<"T", "Q", "=", "=">>)),
             Mem(NameB, StrE(<<"A", "P", "8", "=">>)),
             Mem(NameC, StrE(<<"s">>))>>)>>,
     \* "s"
     <<StrE(<<"s">>)>>,
     \* null
     <<[k |-> "null"]>>,
     \* [1.5,"AQID",7,false]
     <<Arr(<<[k |-> "double", v |-> F(FALSE, 3, 1)], StrE(<<"A", "Q", "I", "D">>),
             IntE(7), [k |-> "bool", v |-> FALSE]>>)>> >>

\* the names the read side asks for: nullptr, names of members, and a name
\* no document has
ReadNames == {<<>>, <<NameA>>, <<NameB>>, <<NameC>>, <<NameZ>>}

\* the targets of the scalar reads
ReadTypes ==
  {"int", "unsigned", "string", "bool", "double", "nullptr_t", "nullptr_t (NDEBUG)"}

\* the declared sizes of the binary reads
ReadSizes == 0..2

\* no read-side archive yet; the writer of the text is gone
InitR ==
  /\ oar = NoOutputArchive
  /\ olife = "destroyed"
  /\ iar = NoInputArchive
  /\ ilife = "none"
  /\ err = "none"
  /\ ret = <<>>
  /\ op = OutCall("destroy")
  /\ calls = <<>>
  /\ rpos = 0

\* the archive is constructed on a text of the family
R_construct ==
  /\ ilife = "none"
  /\ \E i \in 1..Len(Documents) :
       LET r == In_Construct(Documents[i])
       IN /\ iar' = r.a
          /\ ilife' = IF r.err = "none" THEN "live" ELSE "failed"
          /\ err' = r.err
          /\ ret' = r.ret
  /\ op' = InCall("construct")
  /\ calls' = <<[c |-> "construct"]>>
  /\ UNCHANGED <<oar, olife, rpos>>

CanRead == ilife = "live" /\ rpos < MaxReads

\* the outcome r of the read-side call c
Called(r, c) ==
  /\ iar' = r.a
  /\ err' = r.err
  /\ ret' = r.ret
  /\ op' = InCall(c.c)
  /\ calls' = <<c>>
  /\ rpos' = rpos + 1
  /\ UNCHANGED <<oar, olife, ilife>>

R_setNextName ==
  /\ CanRead
  /\ \E name \in ReadNames :
       Called(Done(In_setNextName(iar, name), <<>>), [c |-> "setNextName", n |-> name])

R_startNode ==
  /\ CanRead
  /\ Called(In_startNode(iar), [c |-> "startNode"])

R_finishNode ==
  /\ CanRead
  /\ Len(iar.itsIteratorStack) > 1
  /\ Called(Done(In_finishNode(iar), <<>>),
            [c |-> "finishNode", read |-> Top(iar.itsIteratorStack).itsCurrent - 1])

\* history kept in the call record of loadValue: the state follows a named
\* scalar read that succeeded after a search, the cursor having stood past
\* the end or on a member with another key
AfterRepositioningRead ==
  /\ op = InCall("loadValue")
  /\ err = "none"
  /\ calls[1].n # <<>>
  /\ LET range == Top(iar.itsIteratorStack).range
     IN \/ calls[1].from > Len(range)
        \/ range[calls[1].from].key # calls[1].n[1]

R_loadValue ==
  /\ CanRead
  /\ \E t \in ReadTypes :
       Called(In_loadValue(iar, t),
              [c |-> "loadValue", t |-> t, n |-> iar.itsNextName,
               from |-> Top(iar.itsIteratorStack).itsCurrent,
               resumes |-> AfterRepositioningRead])

R_loadSize ==
  /\ CanRead
  /\ Called(loadSize(iar), [c |-> "loadSize"])

R_loadBinaryValue ==
  /\ CanRead
  /\ \E size \in ReadSizes, name \in ReadNames :
       Called(loadBinaryValue(iar, size, name),
              [c |-> "loadBinaryValue", size |-> size, n |-> name])

NextR ==
  \/ R_construct
  \/ R_loadBinaryValue
  \/ R_setNextName
  \/ R_startNode
  \/ R_finishNode
  \/ R_loadValue
  \/ R_loadSize

SpecR == InitR /\ [][NextR]_vars

\* the value iterator it stands on, <<>> if it stands on none
ValueAt(it) ==
  IF it.itsType = "Null_" \/ AtEnd(it) THEN <<>>
  ELSE IF it.itsType = "Object" THEN <<it.range[it.itsCurrent].val>>
  ELSE <<it.range[it.itsCurrent]>>

(***************************************************************************)
(* Helpers of the properties of the read side.                             *)
(***************************************************************************)
\* the compound whose children the read side is in: the root, or the value
\* the cursor one level up stands on
CurrentCompound(a) ==
  IF Len(a.itsIteratorStack) = 1 THEN a.itsDocument[1]
  ELSE LET parent == a.itsIteratorStack[Len(a.itsIteratorStack) - 1]
       IN IF parent.itsType = "Object" THEN parent.range[parent.itsCurrent].val
          ELSE parent.range[parent.itsCurrent]

\* the positions of the members of object e whose key is name
Positions(e, name) == {i \in 1..Len(e.m) : e.m[i].key = name}

DistinctKeys(e) ==
  \A i, j \in 1..Len(e.m) : e.m[i].key = e.m[j].key => i = j

\* this step is a scalar read or a startNode made with a name pending, in
\* an object
NamedReadInObject ==
  /\ op'.ar = "in"
  /\ op'.c \in {"loadValue", "startNode"}
  /\ rpos' = rpos + 1
  /\ iar.itsNextName # <<>>
  /\ CurrentCompound(iar).k = "object"

\* ... whose name no member of the object has
MissingNameRead ==
  /\ NamedReadInObject
  /\ Positions(CurrentCompound(iar), iar.itsNextName[1]) = {}

\* the value an integer element holds when read into a 32-bit target
IntRead(e, t) ==
  IF t = "int" THEN CastInt32(e.v) ELSE CastUint32(e.v)

\* element e can be read into a target of type t
Fits(e, t) ==
  \/ e.k = "int64" /\ (t = "int" \/ (t = "unsigned" /\ ~e.v.neg))
  \/ e.k = "string" /\ t = "string"
  \/ e.k = "bool" /\ t = "bool"

\* C3: in an object with pairwise distinct keys, a scalar read by a name of
\* the object into a target that fits the member succeeds and returns the
\* value of the member of that name, wherever the cursor of the level
\* stands, past the last member included.
C3_OrderIndependence ==
  [][(/\ NamedReadInObject
      /\ op'.c = "loadValue"
      /\ DistinctKeys(CurrentCompound(iar))
      /\ Positions(CurrentCompound(iar), iar.itsNextName[1]) # {}) =>
       LET o == CurrentCompound(iar)
           i == CHOOSE i \in Positions(o, iar.itsNextName[1]) : TRUE
           e == o.m[i].val
           t == calls'[1].t
       IN Fits(e, t) =>
            /\ err' = "none"
            /\ ret' # <<>>
            /\ ret'[1].t = t
            /\ ret'[1].v = (IF e.k = "int64" THEN IntRead(e, t) ELSE e.v)
            /\ Top(iar'.itsIteratorStack).itsCurrent = i + 1]_vars

\* {"a":1,"b":2,"c":3} read c, a, b by name: b has just been read, after
\* the read of c had left the cursor past the last member
C3_Witness ==
  /\ iar.itsDocument = Documents[1]
  /\ rpos = 6
  /\ op = InCall("loadValue")
  /\ err = "none"
  /\ ret # <<>>
  /\ ret[1].t = "int"
  /\ ret[1].v = Z(FALSE, 2, 0, 0, 0)
  /\ Top(iar.itsIteratorStack).itsCurrent = 3

\* C4: a named scalar read or named startNode whose name no member of the
\* current object has fails with the "NVP not found" error, in every
\* object, one with no member and one whose cursor is exhausted included.
C4_MissingNameNotFound ==
  [][MissingNameRead => err' = "NameNotFound"]_vars

\* C5: a named read that fails because no member of the current object has
\* the name leaves the position of the top cursor and the depth of the
\* iterator stack as they were.
C5_MissingNameKeepsCursor ==
  [][MissingNameRead =>
       /\ err' # "none"
       /\ Len(iar'.itsIteratorStack) = Len(iar.itsIteratorStack)
       /\ Top(iar'.itsIteratorStack).itsCurrent
            = Top(iar.itsIteratorStack).itsCurrent]_vars

\* C8: loadSize succeeds and returns the number of children of the compound
\* the read side is in (the compound the top iterator ranges over), however
\* many of them have been read, and changes nothing.
C8_LoadSizeIsChildCount ==
  [][(op'.ar = "in" /\ op'.c = "loadSize" /\ rpos' = rpos + 1) =>
       /\ err' = "none"
       /\ ret' = <<Len(Top(iar.itsIteratorStack).range)>>
       /\ ret' = <<Len(CurrentCompound(iar).m)>>
       /\ iar' = iar]_vars

\* loadSize has returned 5 in the array of {"a":[1,2,3,4,5],"b":"s"}, two
\* of whose elements had been read
C8_Witness ==
  /\ op = InCall("loadSize")
  /\ err = "none"
  /\ ret = <<5>>
  /\ Len(iar.itsIteratorStack) = 2
  /\ Top(iar.itsIteratorStack).itsCurrent = 3

\* C11: after a startNode, a scalar read or a loadBinaryValue, returned or
\* thrown, no name is pending on the read side.
C11_ReadNameConsumed ==
  (op.ar = "in" /\ op.c \in {"startNode", "loadValue", "loadBinaryValue"}) =>
    iar.itsNextName = <<>>

\* a named scalar read has just failed for a name the object does not have
C11_Witness ==
  /\ op = InCall("loadValue")
  /\ err = "NameNotFound"
  /\ iar.itsNextName = <<>>
  /\ rpos >= 2

\* the first position of object e whose key is name
FirstPosition(e, name) ==
  CHOOSE i \in Positions(e, name) : \A j \in Positions(e, name) : i <= j

\* this step is a named read in an object that has the name, and the name
\* is not the key the cursor stands on (or the cursor is past the end)
SearchingRead ==
  /\ NamedReadInObject
  /\ Positions(CurrentCompound(iar), iar.itsNextName[1]) # {}
  /\ LET it == Top(iar.itsIteratorStack)
     IN AtEnd(it) \/ it.range[it.itsCurrent].key # iar.itsNextName[1]

\* the read of this step used the first member of the current object whose
\* key is the pending name: the cursor of the level stands on it (after it,
\* once a scalar was read), and the value read or entered is its value
UsedFirstMatch ==
  LET d == Len(iar.itsIteratorStack)
      o == CurrentCompound(iar)
      first == FirstPosition(o, iar.itsNextName[1])
  IN /\ err' \notin {"NameNotFound", "SearchNonObject", "NoMoreObjects"}
     /\ iar'.itsIteratorStack[d].itsCurrent =
          (IF op'.c = "loadValue" /\ err' = "none" THEN first + 1 ELSE first)
     /\ (op'.c = "loadValue" /\ err' = "none") =>
          ret'[1].v = Extract(o.m[first].val, calls'[1].t).v
     /\ (op'.c = "startNode" /\ err' = "none") =>
          /\ Len(iar'.itsIteratorStack) = d + 1
          /\ Top(iar'.itsIteratorStack).range = o.m[first].val.m

\* C12 (amended): a named read whose name differs from the key at the
\* cursor, or whose cursor is past the last member, uses the first member
\* in document order whose key is the name, also when that member lies
\* before the cursor and when the key occurs more than once.
C12_SearchFirstMatch == [][SearchingRead => UsedFirstMatch]_vars

\* C12 (as claimed): every named read in an object that has the name uses
\* the earliest member with that key.
C12_AlwaysEarliest ==
  [][(/\ NamedReadInObject
      /\ Positions(CurrentCompound(iar), iar.itsNextName[1]) # {}) =>
       UsedFirstMatch]_vars

\* {"a":1,"a":2,"b":3}: with the cursor on b, a read named a has returned 1
\* and left the cursor on the second a
C12_Witness ==
  /\ iar.itsDocument = Documents[7]
  /\ op = InCall("loadValue")
  /\ calls[1].t = "int"
  /\ rpos = 4
  /\ err = "none"
  /\ ret # <<>>
  /\ ret[1].v = Z(FALSE, 1, 0, 0, 0)
  /\ Top(iar.itsIteratorStack).itsCurrent = 2

\* this step is a scalar read or a startNode for which no search is made:
\* no name is pending, or the pending name is the key the top cursor
\* stands on
SequentialRead ==
  /\ op'.ar = "in"
  /\ op'.c \in {"loadValue", "startNode"}
  /\ rpos' = rpos + 1
  /\ LET it == Top(iar.itsIteratorStack)
     IN \/ iar.itsNextName = <<>>
        \/ /\ it.itsType = "Object"
           /\ ~AtEnd(it)
           /\ it.range[it.itsCurrent].key = iar.itsNextName[1]

\* C13: when no name is pending, or the pending name is the key at the top
\* cursor, name resolution does not move the cursor and does not fail: the
\* read uses the value the cursor stood on (a scalar read that succeeds then
\* steps past it, a startNode enters it), and where the cursor stands on
\* no value nothing moves.
C13_SequentialNoSearch ==
  [][SequentialRead =>
       LET d == Len(iar.itsIteratorStack)
           it == iar.itsIteratorStack[d]
           after == iar'.itsIteratorStack[d]
       IN /\ err' \notin {"NameNotFound", "SearchNonObject"}
          /\ after.itsCurrent =
               (IF op'.c = "loadValue" /\ err' = "none" /\ ValueAt(it) # <<>>
                THEN it.itsCurrent + 1 ELSE it.itsCurrent)
          /\ (op'.c = "loadValue" /\ err' = "none" /\ ValueAt(it) # <<>>) =>
               ret'[1].v =
                 Extract(IF it.itsType = "Object" THEN it.range[it.itsCurrent].val
                         ELSE it.range[it.itsCurrent], calls'[1].t).v
          /\ (op'.c = "startNode" /\ err' = "none") =>
               Top(iar'.itsIteratorStack).range =
                 (IF it.itsType = "Object" THEN it.range[it.itsCurrent].val
                  ELSE it.range[it.itsCurrent]).m]_vars

\* {"a":1,"a":2,"b":3}: with the cursor on the second a, a read named a has
\* returned 2, the value at the cursor
C13_Witness ==
  /\ iar.itsDocument = Documents[7]
  /\ op = InCall("loadValue")
  /\ calls[1].t = "int"
  /\ rpos = 3
  /\ err = "none"
  /\ ret # <<>>
  /\ ret[1].v = Z(FALSE, 2, 0, 0, 0)
  /\ Top(iar.itsIteratorStack).itsCurrent = 3

\* the name a read of this step is made with: the argument of
\* loadBinaryValue, else the pending name
NameOfRead ==
  IF op'.c = "loadBinaryValue" THEN calls'[1].n ELSE iar.itsNextName

\* C14: in an array, empty or not, every scalar read, binary read and
\* startNode made with a name fails with the error of a search in a
\* non-object, returns nothing and moves no cursor.
C14_NamedReadInArrayFails ==
  [][(/\ op'.ar = "in"
      /\ op'.c \in {"loadValue", "startNode", "loadBinaryValue"}
      /\ rpos' = rpos + 1
      /\ NameOfRead # <<>>
      /\ CurrentCompound(iar).k = "array") =>
       /\ err' = "SearchNonObject"
       /\ ret' = <<>>
       /\ iar'.itsIteratorStack = iar.itsIteratorStack]_vars

\* [{"a":1,"b":true},[2,"s"],3]: inside the inner array, after its first
\* element was read, a read named a has failed
C14_Witness ==
  /\ iar.itsDocument = Documents[6]
  /\ Len(iar.itsIteratorStack) = 2
  /\ Top(iar.itsIteratorStack).itsType = "Array"
  /\ Top(iar.itsIteratorStack).itsCurrent = 2
  /\ op = InCall("loadValue")
  /\ err = "SearchNonObject"

\* C15: construction succeeds exactly when the parsed root is an object or
\* an array, and then the iterator stack is one cursor on the first child
\* of the root; on a scalar root it fails with the root-shape error and no
\* cursor.
C15_RootShape ==
  (op = InCall("construct") /\ iar.itsDocument # <<>>) =>
    LET root == iar.itsDocument[1]
    IN /\ (ilife = "live") <=> (root.k \in {"object", "array"})
       /\ (ilife = "live") =>
            /\ err = "none"
            /\ Len(iar.itsIteratorStack) = 1
            /\ iar.itsIteratorStack[1].range = root.m
            /\ iar.itsIteratorStack[1].itsCurrent = 1
       /\ (ilife # "live") =>
            /\ err = "RootNotCompound"
            /\ iar.itsIteratorStack = <<>>

\* construction has failed on the document null
C15_Witness ==
  /\ op = InCall("construct")
  /\ iar.itsDocument = Documents[13]
  /\ ilife = "failed"
  /\ err = "RootNotCompound"

\* C16: once the pending name is resolved, startNode on an object or an
\* array pushes exactly one cursor, on the first child of that compound,
\* and leaves the levels below as the resolution left them; on a scalar, or
\* with no value at the cursor, it fails and the depth of the stack is
\* unchanged.
C16_StartNodeNeedsCompound ==
  [][(/\ op'.ar = "in"
      /\ op'.c = "startNode"
      /\ rpos' = rpos + 1
      /\ err' \notin {"NameNotFound", "SearchNonObject"}) =>
       LET d == Len(iar.itsIteratorStack)
           v == ValueAt(iar'.itsIteratorStack[d])
       IN IF v # <<>> /\ v[1].k \in {"object", "array"}
          THEN /\ err' = "none"
               /\ Len(iar'.itsIteratorStack) = d + 1
               /\ Top(iar'.itsIteratorStack).range = v[1].m
               /\ Top(iar'.itsIteratorStack).itsCurrent = 1
               /\ \A i \in 1..(d - 1) :
                    iar'.itsIteratorStack[i] = iar.itsIteratorStack[i]
          ELSE /\ err' = (IF v = <<>>
                          THEN (IF iar'.itsIteratorStack[d].itsType = "Null_"
                                THEN "NullIterator" ELSE "NoMoreObjects")
                          ELSE "NotCompound")
               /\ Len(iar'.itsIteratorStack) = d
               /\ ret' = <<>>]_vars

\* {"a":[1,2,3,4,5],"b":"s"}: startNode named b has failed on the string,
\* with the cursor on b and one level on the stack
C16_Witness ==
  /\ iar.itsDocument = Documents[4]
  /\ op = InCall("startNode")
  /\ err = "NotCompound"
  /\ Len(iar.itsIteratorStack) = 1
  /\ Top(iar.itsIteratorStack).itsCurrent = 2

\* C17: a loadBinaryValue whose string read succeeded fails when the
\* decoded text has not the declared number of bytes, and then copies
\* nothing; when the numbers agree it copies the decoded bytes, size of
\* them.
C17_BinaryLengthCheck ==
  [][(/\ op'.ar = "in"
      /\ op'.c = "loadBinaryValue"
      /\ rpos' = rpos + 1
      /\ err' \in {"none", "SizeMismatch"}) =>
       LET it == iar'.itsIteratorStack[Len(iar.itsIteratorStack)]
           e == IF it.itsType = "Object" THEN it.range[it.itsCurrent - 1].val
                ELSE it.range[it.itsCurrent - 1]
           decoded == Base64Decode(e.v)
           size == calls'[1].size
       IN /\ e.k = "string"
          /\ (Len(decoded) # size) => (err' = "SizeMismatch" /\ ret' = <<>>)
          /\ (Len(decoded) = size) =>
               (err' = "none" /\ ret' = <<decoded>> /\ Len(ret'[1]) = size)]_vars

\* {"a":"TQ==","b":"AP8=","c":"s"}: the read of b, two bytes, into a buffer
\* declared as one byte has failed and copied nothing
C17_Witness ==
  /\ iar.itsDocument = Documents[11]
  /\ op = InCall("loadBinaryValue")
  /\ calls[1].size = 1
  /\ err = "SizeMismatch"
  /\ ret = <<>>
  /\ Top(iar.itsIteratorStack).itsCurrent = 3

\* the JSON value e is of another kind than the target type t of a read
KindDiffers(e, t) ==
  CASE t = "bool" -> e.k # "bool"
    [] t \in {"int", "int64_t"} -> e.k \notin {"int64", "uint64"}
    [] t \in {"unsigned", "uint64_t"} -> e.k \notin {"int64", "uint64"}
    [] t = "double" -> e.k # "double"
    [] t = "string" -> e.k # "string"
    [] t \in {"nullptr_t", "nullptr_t (NDEBUG)"} -> e.k # "null"

\* C19 (as claimed): a scalar read whose name resolution found a value of
\* another kind than its target fails, returns nothing, and leaves the top
\* cursor on that value.
C19_TypeMismatchFails ==
  [][(/\ op'.ar = "in"
      /\ op'.c = "loadValue"
      /\ rpos' = rpos + 1
      /\ In_search(iar).err = "none"
      /\ ValueAt(Top(In_search(iar).a.itsIteratorStack)) # <<>>
      /\ KindDiffers(ValueAt(Top(In_search(iar).a.itsIteratorStack))[1],
                     calls'[1].t)) =>
       /\ err' # "none"
       /\ ret' = <<>>
       /\ Top(iar'.itsIteratorStack).itsCurrent =
            Top(In_search(iar).a.itsIteratorStack).itsCurrent]_vars

\* this step is a scalar read that succeeded
SuccessfulRead ==
  /\ op'.ar = "in"
  /\ op'.c = "loadValue"
  /\ rpos' = rpos + 1
  /\ err' = "none"

\* a successful scalar read leaves the depth of the stack, the cursors
\* below the top, the range of the top cursor and the document as they
\* were
OnlyTopMoves ==
  LET d == Len(iar.itsIteratorStack)
  IN /\ Len(iar'.itsIteratorStack) = d
     /\ \A i \in 1..(d - 1) : iar'.itsIteratorStack[i] = iar.itsIteratorStack[i]
     /\ iar'.itsIteratorStack[d].itsType = iar.itsIteratorStack[d].itsType
     /\ iar'.itsIteratorStack[d].range = iar.itsIteratorStack[d].range
     /\ iar'.itsDocument = iar.itsDocument

C26_FinishNodeConsumes ==
  [][(op'.ar = "in" /\ op'.c = "finishNode" /\ rpos' = rpos + 1) =>
       LET d == Len(iar.itsIteratorStack)
           parent == iar.itsIteratorStack[d - 1]
       IN /\ err' = "none"
          /\ ValueAt(parent) # <<>>
          /\ ValueAt(parent)[1].k \in {"object", "array"}
          /\ ValueAt(parent)[1].m = Top(iar.itsIteratorStack).range
          /\ Len(iar'.itsIteratorStack) = d - 1
          /\ \A i \in 1..(d - 2) : iar'.itsIteratorStack[i] = iar.itsIteratorStack[i]
          /\ Top(iar'.itsIteratorStack) =
               [parent EXCEPT !.itsCurrent = parent.itsCurrent + 1]
          /\ iar'.itsDocument = iar.itsDocument]_vars

\* {"a":[1,2,3,4,5],"b":"s"}: the array a was entered and finished after two
\* of its five elements were read, and the cursor of the root stands on b
C26_Witness ==
  /\ iar.itsDocument = Documents[4]
  /\ op = InCall("finishNode")
  /\ calls[1].read = 2
  /\ Len(iar.itsIteratorStack) = 1
  /\ Top(iar.itsIteratorStack).itsCurrent = 2
  /\ ValueAt(Top(iar.itsIteratorStack)) = <<StrE(<<"s">>)>>

\* C28: after a named read that moved the cursor to member i of the object,
\* a read with no name pending reads member i + 1: it succeeds or fails as
\* the extraction of that member into the target does, returns its value
\* and leaves the cursor on i + 2; when i was the last member it fails for
\* lack of a value and the cursor stays past the end.
C28_ResumeAfterLookup ==
  [][(/\ AfterRepositioningRead
      /\ op'.ar = "in"
      /\ op'.c = "loadValue"
      /\ rpos' = rpos + 1
      /\ iar.itsNextName = <<>>) =>
       LET o == CurrentCompound(iar)
           i == FirstPosition(o, calls[1].n[1])
           t == calls'[1].t
       IN /\ o.k = "object"
          /\ Top(iar.itsIteratorStack).itsCurrent = i + 1
          /\ IF i = Len(o.m)
             THEN /\ err' = "NoMoreObjects"
                  /\ ret' = <<>>
                  /\ Top(iar'.itsIteratorStack).itsCurrent = i + 1
             ELSE /\ err' = Extract(o.m[i + 1].val, t).err
                  /\ (err' = "none" =>
                        (/\ ret'[1].v = Extract(o.m[i + 1].val, t).v
                         /\ Top(iar'.itsIteratorStack).itsCurrent = i + 2))]_vars

\* {"a":1,"b":2,"c":3}: with the cursor on a, the read named b was followed
\* by a read with no name, which has returned 3, the value of c
C28_Witness ==
  /\ iar.itsDocument = Documents[1]
  /\ op = InCall("loadValue")
  /\ rpos = 4
  /\ err = "none"
  /\ calls[1].n = <<>>
  /\ calls[1].resumes
  /\ calls[1].from = 3
  /\ calls[1].t = "int"
  /\ ret # <<>>
  /\ ret[1].v = Z(FALSE, 3, 0, 0, 0)
  /\ Top(iar.itsIteratorStack).itsCurrent = 4

\* every level above the root ranges over the children of the compound the
\* cursor one level below stands on
LevelsOverChildren(st) ==
  \A i \in 2..Len(st) :
    /\ ValueAt(st[i - 1]) # <<>>
    /\ ValueAt(st[i - 1])[1].k \in {"object", "array"}
    /\ st[i].range = ValueAt(st[i - 1])[1].m

ReadWithNoValue ==
  /\ op'.ar = "in"
  /\ op'.c \in {"loadValue", "startNode"}
  /\ rpos' = rpos + 1
  /\ iar.itsNextName = <<>>
  /\ ValueAt(Top(iar.itsIteratorStack)) = <<>>

\* C32: a scalar read or startNode with no name pending, made when the top
\* cursor is exhausted or over an empty compound, fails and returns no
\* value; and after every call every cursor stands within its range or at
\* its end, never beyond.
C32_PastEndFails ==
  [][(op'.ar = "in" /\ ilife' = "live") =>
       (/\ \A i \in 1..Len(iar'.itsIteratorStack) :
             iar'.itsIteratorStack[i].itsCurrent \in
               1..(Len(iar'.itsIteratorStack[i].range) + 1)
        /\ ReadWithNoValue => (err' # "none" /\ ret' = <<>>))]_vars

(***************************************************************************)
(* SpecBin: a byte buffer is written with saveBinaryValue at the root      *)
(* object, with a name or without, alone or after a scalar or an empty     *)
(* node, the archive is destroyed, and the text is read back call for      *)
(* call, the buffer with loadBinaryValue, the same name and the size of    *)
(* the buffer.                                                             *)
(***************************************************************************)
Bytes == {0, 77, 255}

\* the buffers of up to MaxBytes bytes
BinData == UNION {[1..n -> Bytes] : n \in 0..MaxBytes}

NoBinaryYet == \A i \in 1..Len(calls) : calls[i].c # "saveBinaryValue"

B_save == NoBinaryYet /\ calls = <<>> /\ RT_save

B_startNode == NoBinaryYet /\ calls = <<>> /\ RT_startNode

B_finishNode == NoBinaryYet /\ RT_finishNode

B_saveBinaryValue ==
  /\ olife = "live"
  /\ NoBinaryYet
  /\ Depth = 1
  /\ Top(oar.itsNodeStack) \in {"StartObject", "InObject"}
  /\ \E data \in BinData, name \in OutNames :
       /\ oar' = saveBinaryValue(oar, data, name)
       /\ calls' = Append(calls, [c |-> "saveBinaryValue", d |-> data, n |-> name])
  /\ op' = OutCall("saveBinaryValue")
  /\ UNCHANGED <<olife, iar, ilife, rpos, err, ret>>

B_destroy == ~NoBinaryYet /\ RT_destroy

B_read_loadBinaryValue ==
  /\ Replaying("saveBinaryValue")
  /\ ReadOutcome(loadBinaryValue(iar, Len(calls[rpos + 1].d), calls[rpos + 1].n),
                 "loadBinaryValue")

NextBin ==
  \/ B_save
  \/ B_startNode
  \/ B_finishNode
  \/ B_saveBinaryValue
  \/ B_destroy
  \/ RT_construct
  \/ RT_read_loadValue
  \/ RT_read_startNode
  \/ RT_read_finishNode
  \/ B_read_loadBinaryValue

SpecBin == InitW /\ [][NextBin]_vars

\* C18: saveBinaryValue at an object level emits one member, its key the
\* given name or else the synthesized one and its value one string; and
\* loadBinaryValue with the same name and the size of the buffer on the
\* document written returns the bytes of the buffer.
C18_BinaryRoundTrip ==
  [][((op'.ar = "out" /\ op'.c = "saveBinaryValue") =>
        LET c == Top(calls')
            member == IF Top(oar.itsNodeStack) = "StartObject"
                      THEN SubSeq(NewEvents, 2, Len(NewEvents)) ELSE NewEvents
        IN /\ Len(member) = 2
           /\ member[1].op = "String"
           /\ member[1].v =
                (IF c.n # <<>> THEN c.n[1]
                 ELSE <<"v", "a", "l", "u", "e">> \o NatToChars(SynthCount(oar)))
           /\ member[2].op = "String"
           /\ (Top(oar.itsNodeStack) = "StartObject" =>
                 NewEvents[1] = [op |-> "StartObject"]))
      /\ ((op'.ar = "in" /\ op'.c = "loadBinaryValue") =>
            (err' = "none" /\ ret' = <<calls[rpos'].d>>))]_vars

\* the buffer 255, 0, 77 written under the name a after another member has
\* been read back
C18_Witness ==
  /\ op = InCall("loadBinaryValue")
  /\ err = "none"
  /\ ret = << <<255, 0, 77>> >>
  /\ rpos = 2
  /\ calls[2].n = <<NameA>>

====
